---- MODULE Spec2Model ----
(***************************************************************************)
(* Model of the multi-channel chatbot console (D-ack/bot):                 *)
(*   - the per-message pipeline of the channel handlers                    *)
(*     (TelegramHandler / WhatsAppHandler / MessengerHandler               *)
(*      .handleMessage, .processIncomingMessage, .sendMessage),            *)
(*   - the record store they write (DatabaseStorage),                      *)
(*   - the response selectors (SimpleMLTrainer / MLTrainer                 *)
(*     .generateResponse over SimpleNLPProcessor.processMessage),          *)
(*   - the live fan-out channel (WebSocketManager).                        *)
(*                                                                         *)
(* Every `await` of the source is one atomic step of a run; runs of        *)
(* different webhook deliveries interleave at those steps.                 *)
(*                                                                         *)
(* Conventions: a timestamp 0 stands for null; an id 0 stands for          *)
(* "no record"; texts are sequences of one-character strings so that       *)
(* String.includes is a computed substring test; the classifier's          *)
(* confidence 0.75 is kept exact by counting in hundredths.                *)
(***************************************************************************)
EXTENDS Integers, Sequences, FiniteSets, TLC

----------------------------------------------------------------------------
(* Bounds of the model                                                     *)

MaxRuns == 2
MaxFaults == 3
MaxClock == 2

Runs == 1..MaxRuns

----------------------------------------------------------------------------
(* Texts                                                                   *)

T_hi == <<"h","i">>
T_hey == <<"h","e","y">>
T_hello == <<"h","e","l","l","o">>
T_help == <<"h","e","l","p">>
T_support == <<"s","u","p","p","o","r","t">>
T_thank == <<"t","h","a","n","k">>
T_thanks == <<"t","h","a","n","k","s">>
T_bye == <<"b","y","e">>
T_goodbye == <<"g","o","o","d","b","y","e">>
T_price == <<"p","r","i","c","e">>
T_cost == <<"c","o","s","t">>
T_payment == <<"p","a","y","m","e","n","t">>
T_delivery == <<"d","e","l","i","v","e","r","y">>
T_shipping == <<"s","h","i","p","p","i","n","g">>
T_empty == <<>>
T_xyzzy == <<"x","y","z","z","y">>
T_HELP == <<"H","E","L","P">>

\* intent labels, as the character sequences String.includes searches for
I_greeting == <<"g","r","e","e","t","i","n","g">>
I_help_request == <<"h","e","l","p","_","r","e","q","u","e","s","t">>
I_gratitude == <<"g","r","a","t","i","t","u","d","e">>
I_farewell == <<"f","a","r","e","w","e","l","l">>
I_pricing_inquiry == <<"p","r","i","c","i","n","g","_","i","n","q","u","i","r","y">>
I_delivery_inquiry == <<"d","e","l","i","v","e","r","y","_","i","n","q","u","i","r","y">>
I_general_inquiry == <<"g","e","n","e","r","a","l","_","i","n","q","u","i","r","y">>

\* names and categories of templates
N_WelcomeMessage == <<"W","e","l","c","o","m","e"," ","M","e","s","s","a","g","e">>
N_Greetings == <<"G","r","e","e","t","i","n","g","s">>
N_PriceList == <<"p","r","i","c","i","n","g","_","i","n","q","u","i","r","y"," ","l","i","s","t">>
N_Sales == <<"S","a","l","e","s">>

\* String.prototype.includes: needle occurs as a contiguous substring.
includes(hay, needle) ==
  \E i \in 0..(Len(hay) - Len(needle)) :
     \A j \in 1..Len(needle) : hay[i + j] = needle[j]

toLowerChar(c) ==
  CASE c = "H" -> "h"
    [] c = "E" -> "e"
    [] c = "L" -> "l"
    [] c = "P" -> "p"
    [] c = "W" -> "w"
    [] c = "M" -> "m"
    [] c = "G" -> "g"
    [] c = "S" -> "s"
    [] OTHER -> c

\* String.prototype.toLowerCase, for the capitals the texts of the model use
toLowerCase(s) == [i \in 1..Len(s) |-> toLowerChar(s[i])]

----------------------------------------------------------------------------
(* SimpleNLPProcessor                                                      *)

\* mutant: the help rule is tried before the greeting rule
classifyIntent_HelpFirst(message) ==
  IF includes(message, T_help) \/ includes(message, T_support)
    THEN "help_request"
  ELSE IF includes(message, T_hello) \/ includes(message, T_hi) \/ includes(message, T_hey)
    THEN "greeting"
  ELSE IF includes(message, T_thank) \/ includes(message, T_thanks)
    THEN "gratitude"
  ELSE IF includes(message, T_bye) \/ includes(message, T_goodbye)
    THEN "farewell"
  ELSE IF includes(message, T_price) \/ includes(message, T_cost) \/ includes(message, T_payment)
    THEN "pricing_inquiry"
  ELSE IF includes(message, T_delivery) \/ includes(message, T_shipping)
    THEN "delivery_inquiry"
  ELSE "general_inquiry"

classifyIntent(message) ==
  IF includes(message, T_hello) \/ includes(message, T_hi) \/ includes(message, T_hey)
    THEN "greeting"
  ELSE IF includes(message, T_help) \/ includes(message, T_support)
    THEN "help_request"
  ELSE IF includes(message, T_thank) \/ includes(message, T_thanks)
    THEN "gratitude"
  ELSE IF includes(message, T_bye) \/ includes(message, T_goodbye)
    THEN "farewell"
  ELSE IF includes(message, T_price) \/ includes(message, T_cost) \/ includes(message, T_payment)
    THEN "pricing_inquiry"
  ELSE IF includes(message, T_delivery) \/ includes(message, T_shipping)
    THEN "delivery_inquiry"
  ELSE "general_inquiry"

\* confidence: 0.75, written in hundredths
FixedConfidence == 75

\* one unit of the 0..100 threshold scale, in hundredths
ScaleUnit == 100

\* message.trim(): the blanks at both ends removed
RECURSIVE trimStart(_)
trimStart(s) == IF s # <<>> /\ Head(s) = " " THEN trimStart(Tail(s)) ELSE s

RECURSIVE trimEnd(_)
trimEnd(s) ==
  IF s # <<>> /\ s[Len(s)] = " " THEN trimEnd(SubSeq(s, 1, Len(s) - 1)) ELSE s

trim(s) == trimEnd(trimStart(s))

\* text.split(' '): the pieces between blanks, the empty ones included
RECURSIVE splitFrom(_, _)
splitFrom(s, piece) ==
  IF s = <<>> THEN <<piece>>
  ELSE IF Head(s) = " " THEN <<piece>> \o splitFrom(Tail(s), <<>>)
  ELSE splitFrom(Tail(s), Append(piece, Head(s)))

split(s) == splitFrom(s, <<>>)

\* cleanMessage.split(' ').filter(token => token.length > 0)
tokenize(cleanMessage) ==
  LET NotEmpty(token) == Len(token) > 0 IN SelectSeq(split(cleanMessage), NotEmpty)

positiveWords ==
  { <<"g","o","o","d">>, <<"g","r","e","a","t">>,
    <<"e","x","c","e","l","l","e","n","t">>, <<"a","m","a","z","i","n","g">>,
    <<"w","o","n","d","e","r","f","u","l">>, <<"l","o","v","e">>,
    <<"l","i","k","e">>, <<"h","a","p","p","y">>,
    <<"p","l","e","a","s","e","d">> }

negativeWords ==
  { <<"b","a","d">>, <<"t","e","r","r","i","b","l","e">>,
    <<"a","w","f","u","l">>, <<"h","a","t","e">>,
    <<"d","i","s","l","i","k","e">>, <<"a","n","g","r","y">>,
    <<"f","r","u","s","t","r","a","t","e","d">>,
    <<"d","i","s","a","p","p","o","i","n","t","e","d">> }

\* the number of elements of words that stand in list
CountIn(words, list) == Cardinality({i \in 1..Len(words) : words[i] \in list})

analyzeSentiment(text) ==
  LET words == split(text)
      positiveCount == CountIn(words, positiveWords)
      negativeCount == CountIn(words, negativeWords)
  IN IF positiveCount > negativeCount THEN "positive"
     ELSE IF negativeCount > positiveCount THEN "negative"
     ELSE "neutral"

stopWords ==
  { <<"t","h","e">>, <<"i","s">>, <<"a","t">>, <<"w","h","i","c","h">>,
    <<"o","n">>, <<"a">>, <<"a","n">>, <<"a","n","d">>, <<"o","r">>,
    <<"b","u","t">>, <<"i","n">>, <<"w","i","t","h">>, <<"t","o">>,
    <<"f","o","r">>, <<"o","f">>, <<"a","s">>, <<"b","y">>,
    <<"t","h","a","t">>, <<"t","h","i","s">>, <<"i","t">>,
    <<"f","r","o","m">>, <<"t","h","e","y">>, <<"w","e">>, <<"s","a","y">>,
    <<"h","e","r">>, <<"s","h","e">>, <<"h","e">>, <<"w","i","l","l">>,
    <<"m","y">>, <<"o","n","e">>, <<"a","l","l">>, <<"w","o","u","l","d">>,
    <<"t","h","e","r","e">>, <<"t","h","e","i","r">> }

\* tokens.filter(token => !stopWords.includes(token) && token.length > 2).slice(0, 5)
extractKeywords(tokens) ==
  LET Meaningful(token) == token \notin stopWords /\ Len(token) > 2
      kept == SelectSeq(tokens, Meaningful)
  IN SubSeq(kept, 1, IF Len(kept) < 5 THEN Len(kept) ELSE 5)

\* entities: {} -- the classifier extracts no entity
NoEntities == [v \in {} |-> ""]

processMessage(message) ==
  LET cleanMessage == trim(toLowerCase(message))
      tokens == tokenize(cleanMessage)
  IN [intent |-> classifyIntent(cleanMessage),
      entities |-> NoEntities,
      sentiment |-> analyzeSentiment(cleanMessage),
      confidence |-> FixedConfidence,
      keywords |-> extractKeywords(tokens)]

----------------------------------------------------------------------------
(* SimpleMLTrainer.generateResponse: the selector the handlers call        *)

R_greeting == "Hello! How can I help you today?"
R_help == "I'm here to help! What do you need assistance with?"
R_gratitude == "You're welcome! Is there anything else I can help you with?"
R_farewell == "Goodbye! Have a great day!"
R_pricing == "I can help you with pricing information. What specific product or service are you interested in?"
R_delivery == "I can provide delivery information. Could you please share your order details?"
R_default == "Thank you for your message. How can I assist you today?"

DefaultFallbackMessage == "Sorry, I didn't understand that. Can you please rephrase?"

SimpleResponseFor(intent) ==
  CASE intent = "greeting" -> R_greeting
    [] intent = "help_request" -> R_help
    [] intent = "gratitude" -> R_gratitude
    [] intent = "farewell" -> R_farewell
    [] intent = "pricing_inquiry" -> R_pricing
    [] intent = "delivery_inquiry" -> R_delivery
    [] OTHER -> R_default

\* botConfig is not an argument: the method never reads the configuration.
SimpleGenerateResponse(message) ==
  LET processed == processMessage(message) IN
  [response |-> SimpleResponseFor(processed.intent),
   confidence |-> processed.confidence,
   intent |-> processed.intent,
   templateId |-> 0]

----------------------------------------------------------------------------
(* MLTrainer.generateResponse: the selector that reads the configuration   *)

NoConfig == [present |-> FALSE, confidenceThreshold |-> 0, fallbackMessage |-> ""]

IntentChars(intent) ==
  CASE intent = "greeting" -> I_greeting
    [] intent = "help_request" -> I_help_request
    [] intent = "gratitude" -> I_gratitude
    [] intent = "farewell" -> I_farewell
    [] intent = "pricing_inquiry" -> I_pricing_inquiry
    [] intent = "delivery_inquiry" -> I_delivery_inquiry
    [] OTHER -> I_general_inquiry

\* processed.confidence < botConfig.confidenceThreshold, the confidence in
\* hundredths and the threshold in units
BelowThreshold(confidence, threshold) == confidence < threshold * ScaleUnit

\* the predicate of templates.find(...)
TemplateMatches(t, intent) ==
  \/ includes(toLowerCase(t.category), IntentChars(intent))
  \/ includes(toLowerCase(t.name), IntentChars(intent))

\* intentResponses[processed.intent]; "" stands for undefined
IntentResponse(intent) ==
  CASE intent = "greeting" -> "Hello! How can I help you today?"
    [] intent = "farewell" -> "Thank you for contacting us. Have a great day!"
    [] intent = "help" -> "I'm here to help. What do you need assistance with?"
    [] intent = "order_inquiry" -> "I can help you with your order. Could you please provide your order number?"
    [] intent = "pricing" -> "I'd be happy to provide pricing information. What product are you interested in?"
    [] intent = "product_info" -> "What would you like to know about our products?"
    [] intent = "complaint" -> "I apologize for any inconvenience. Let me help resolve this issue for you."
    [] intent = "gratitude" -> "You're welcome! Is there anything else I can help you with?"
    [] intent = "cancel_request" -> "I understand you'd like to cancel. Let me help you with that process."
    [] intent = "delivery_inquiry" -> "I can check on your delivery status. Please provide your order number."
    [] OTHER -> ""

\* const response = intentResponses[processed.intent] || botConfig.fallbackMessage
CannedOrFallback(intent, config) ==
  IF IntentResponse(intent) # "" THEN IntentResponse(intent) ELSE config.fallbackMessage

----------------------------------------------------------------------------
(* State                                                                   *)

VARIABLES
  platforms,       \* table platforms: sequence of rows, id = position
  conversations,   \* table conversations: sequence of rows, id = position
  messages,        \* table messages: set of rows (no code reads a message id)
  logs,            \* table logs: set of rows
  outbox,          \* texts handed to the platforms' send-message endpoints
  runs,            \* per webhook delivery: position and locals of the handler
  clock,           \* the value Date.now() / new Date() returns
  faults,          \* number of store calls that have thrown
  hasCredential,   \* per channel: is the send credential configured (env)
  botConfig,       \* table bot_configs: its row, or NoConfig
  templates,       \* table templates: sequence of rows, id = position
  sel,             \* the last response selection: its inputs and its result
  selections,      \* number of response selections made outside the pipeline
  clients,         \* WebSocketManager.clients
  sockets,         \* per observer: state of its WebSocket
  snapshot,        \* per observer: position of sendInitialData
  inbox,           \* per observer: the messages it has received, in order
  broadcasts,      \* number of broadcasts made
  verified,        \* the last GET verification request and its answer
  subst,           \* the last placeholder substitution: its inputs and its result
  hist,            \* the calls of processMessage made: text, result, trainings before
  trainCalls,      \* number of calls of trainClassifier made
  stored,          \* rows of table messages as calculateStats reads them, oldest first
  stats,           \* the last result of calculateStats, and the rows it read
  http,            \* the last answer of an update or delete route, and its request
  hook             \* one instance of the dashboard's useWebSocket hook

pipelineVars == <<platforms, conversations, messages, logs, outbox, runs, clock,
                  faults, hasCredential>>
selVars == <<botConfig, templates, sel, selections>>
wsVars == <<clients, sockets, snapshot, inbox, broadcasts>>
fnVars == <<verified, subst, hist, trainCalls>>

statVars == <<stored, stats>>

vars == <<pipelineVars, selVars, wsVars, fnVars, statVars, http, hook>>

Channels == {"telegram", "whatsapp"}

\* handleMessage of Telegram awaits processIncomingMessage before it answers;
\* WhatsApp and Messenger start it inside forEach(async ...) and answer at once.
AwaitsRun(chan) == chan = "telegram"

\* normalized inbound messages the webhooks deliver
InboundMessages ==
  { [chan |-> "telegram", from |-> "u1", text |-> T_hi],
    [chan |-> "telegram", from |-> "u2", text |-> T_empty],
    [chan |-> "whatsapp", from |-> "u1", text |-> T_help] }

NoMessage == [chan |-> "none", from |-> "none", text |-> T_empty]
NoPlatform == [id |-> 0, name |-> "none", messagesCount |-> 0, lastMessageAt |-> 0]
NoConversation ==
  [id |-> 0, platformId |-> 0, userId |-> "none", messagesCount |-> 0,
   lastMessageAt |-> 0, sawAtLookup |-> 0]

HTTP_NONE == 0
HTTP_OK == 200
HTTP_ERROR == 500

IdleRun ==
  [pc |-> "idle", msg |-> NoMessage, startTime |-> 0,
   platform |-> NoPlatform, conversation |-> NoConversation,
   sawConvs |-> 0,   \* number of conversation rows the lookup has read
   response |-> "", confidence |-> 0, responseTime |-> 0, templateId |-> 0,
   sendResult |-> "none",
   threw |-> FALSE,  \* a store call of the run has rejected
   trace |-> <<>>,   \* the calls the run has issued, in order
   ack |-> HTTP_NONE]

Terminal == {"done", "failed"}
Active(r) == runs[r].pc \notin ({"idle"} \cup Terminal)

\* positions at which the run awaits a store call inside the try block
StoreAwaits ==
  {"getPlatformByName", "createPlatform", "getAllConversations",
   "createConversation", "createUserMessage", "createBotMessage",
   "sendFailureLog", "updatePlatform", "updateConversation",
   "createSuccessLog"}

----------------------------------------------------------------------------
(* DatabaseStorage                                                         *)

RowsOf(table) == { table[i] : i \in 1..Len(table) }

\* select ... where name = $1: the rows among which `const [platform] =` takes
\* the first of an unordered result
getPlatformByName(name) == { p \in RowsOf(platforms) : p.name = name }

createPlatform(name) ==
  [id |-> Len(platforms) + 1, name |-> name, messagesCount |-> 0, lastMessageAt |-> 0]

\* mutant: the stored userId (text) compared with the numeric id of the
\* sender, without toString(): strict equality never holds
MatchesConversation_NoToString(c, platformId, userId) == FALSE

\* the predicate of convs.find(...) in processIncomingMessage
MatchesConversation(c, platformId, userId) ==
  c.platformId = platformId /\ c.userId = userId

\* getAllConversations().then(convs => convs.find(...)): the candidates of find
\* over an unordered result
findConversation(platformId, userId) ==
  { c \in RowsOf(conversations) : MatchesConversation(c, platformId, userId) }

createConversation(platformId, userId, saw) ==
  [id |-> Len(conversations) + 1, platformId |-> platformId, userId |-> userId,
   messagesCount |-> 0, lastMessageAt |-> 0, sawAtLookup |-> saw]

createMessage(conversationId, content, sender, confidence, responseTime, templateId, r) ==
  [conversationId |-> conversationId, content |-> content,
   sender |-> sender, confidence |-> confidence, responseTime |-> responseTime,
   templateId |-> templateId, run |-> r]

createLog(level, message, source, r) ==
  [level |-> level, message |-> message, source |-> source, run |-> r]

\* mutant: an atomic increment of the stored value instead of the value read
\* when the platform was resolved
PlatformCountUpdate_Atomic(platform) == platforms[platform.id].messagesCount + 1

\* mutant: the turn counted as one message
ConversationCountUpdate_PlusOne(conversation) == conversation.messagesCount + 1

\* the values the handlers pass to updatePlatform / updateConversation
PlatformCountUpdate(platform) == platform.messagesCount + 1
ConversationCountUpdate(conversation) == conversation.messagesCount + 2

\* update ... set {...fields} where id = $1
updatePlatform(id, count, at) ==
  [platforms EXCEPT ![id].messagesCount = count, ![id].lastMessageAt = at]

updateConversation(id, count, at) ==
  [conversations EXCEPT ![id].messagesCount = count, ![id].lastMessageAt = at]

----------------------------------------------------------------------------
(* Helpers over the run record                                             *)

\* content: message.text || '[Media]'
Content(text) == IF text = T_empty THEN "[Media]" ELSE "text"

Source(r) == runs[r].msg.chan

\* the run moves to position pc, having issued the calls in issued
Goto(r, pc, issued) == [runs[r] EXCEPT !.pc = pc, !.trace = @ \o issued]

----------------------------------------------------------------------------
(* Inputs of the response selectors and of the fan-out channel             *)

MaxSelections == 2
MaxTemplates == 2
MaxObservers == 2
MaxBroadcasts == 1

Observers == 1..MaxObservers

\* values PATCH /api/bot/config sets confidenceThreshold to
Thresholds == {0, 75, 90}

\* texts given to the selectors
SelectTexts ==
  {T_hi, T_hello, T_HELP, T_support, T_thanks, T_goodbye, T_price, T_shipping,
   T_delivery, T_xyzzy, T_empty}

\* bodies of POST /api/templates
TemplateInputs ==
  { [name |-> N_WelcomeMessage, category |-> N_Greetings,
     content |-> <<"Hello ", "{name}", "! Welcome">>, variables |-> <<"name">>,
     isActive |-> TRUE],
    [name |-> N_PriceList, category |-> N_Sales,
     content |-> <<"Our price list">>, variables |-> <<>>,
     isActive |-> FALSE] }

\* an absent query parameter or environment variable
Undefined == "undefined"

HTTP_FORBIDDEN == 403

NoVerification ==
  [chan |-> "none", mode |-> Undefined, token |-> Undefined, challenge |-> Undefined,
   secret |-> Undefined, status |-> HTTP_NONE, body |-> Undefined]

NoSubstitution ==
  [done |-> FALSE, content |-> <<>>, variables |-> <<>>, entities |-> NoEntities,
   response |-> <<>>]

\* a column that is null; a set with the value otherwise
Null == {}

HTTP_BAD_REQUEST == 400

NoResponse ==
  [route |-> "none", id |-> 0, valid |-> FALSE, found |-> FALSE,
   status |-> HTTP_NONE, body |-> ""]

\* the place of a deleted row of table templates: ids are not reused
DeletedTemplate ==
  [id |-> 0, name |-> <<>>, category |-> <<>>, content |-> <<>>, variables |-> <<>>,
   isActive |-> FALSE, usageCount |-> 0]

\* the hook before its effect has run
NoHook ==
  [phase |-> "initial", ws |-> "none", isConnected |-> FALSE, timers |-> 0,
   opened |-> 0, openedAfterCleanup |-> 0, closes |-> 0,
   closedBy |-> "none", invalidated |-> {}]

NoStats ==
  [computed |-> FALSE, recentMessages |-> <<>>, responseRate |-> 0, avgResponseTime |-> 0]

NoSelection ==
  [trainer |-> "none", text |-> T_empty, response |-> "", confidence |-> 0,
   templateId |-> 0, threshold |-> 0, fallbackMessage |-> "", threw |-> FALSE]

----------------------------------------------------------------------------
(* Init                                                                    *)

Init ==
  /\ platforms = <<>>
  /\ conversations = <<>>
  /\ messages = {}
  /\ logs = {}
  /\ outbox = {}
  /\ runs = [r \in Runs |-> IdleRun]
  /\ clock = 1
  /\ faults = 0
  /\ hasCredential \in [Channels -> BOOLEAN]
  /\ botConfig = NoConfig
  /\ templates = <<>>
  /\ sel = NoSelection
  /\ selections = 0
  /\ clients = {}
  /\ sockets = [o \in Observers |-> "none"]
  /\ snapshot = [o \in Observers |-> "none"]
  /\ inbox = [o \in Observers |-> <<>>]
  /\ broadcasts = 0
  /\ verified = NoVerification
  /\ subst = NoSubstitution
  /\ hist = <<>>
  /\ trainCalls = 0
  /\ stored = <<>>
  /\ stats = NoStats
  /\ http = NoResponse
  /\ hook = NoHook

----------------------------------------------------------------------------
(* handleMessage / processIncomingMessage / sendMessage.                   *)
(* One action per awaited I/O: the action is the completion of the call    *)
(* the run waits for, together with the code that runs until the next      *)
(* call is issued.                                                         *)

\* time passes
Tick ==
  /\ clock < MaxClock
  /\ clock' = clock + 1
  /\ UNCHANGED <<platforms, conversations, messages, logs, outbox, runs, faults,
                 hasCredential, selVars, wsVars, fnVars, statVars, http, hook>>

\* POST /webhook/<chan>: handleMessage enters processIncomingMessage, which
\* reads Date.now() and issues getPlatformByName. WhatsApp/Messenger answer
\* 200 right after starting the runs of the batch.
Receive(r, m) ==
  /\ runs[r].pc = "idle"
  /\ \A q \in Runs : q < r => runs[q].pc # "idle"
  /\ runs' = [runs EXCEPT ![r] =
       [IdleRun EXCEPT !.pc = "getPlatformByName", !.msg = m,
          !.startTime = clock,
          !.trace = <<"getPlatformByName">>,
          !.ack = IF AwaitsRun(m.chan) THEN HTTP_NONE ELSE HTTP_OK]]
  /\ UNCHANGED <<platforms, conversations, messages, logs, outbox, clock, faults,
                 hasCredential, selVars, wsVars, fnVars, statVars, http, hook>>

\* let platform = await storage.getPlatformByName(chan); if (!platform) ...
GetPlatformByName(r) ==
  /\ runs[r].pc = "getPlatformByName"
  /\ LET found == getPlatformByName(Source(r)) IN
     IF found = {}
       THEN runs' = [runs EXCEPT ![r] = Goto(r, "createPlatform", <<"createPlatform">>)]
       ELSE \E p \in found :
              runs' = [runs EXCEPT ![r] =
                [Goto(r, "getAllConversations", <<"getAllConversations">>)
                   EXCEPT !.platform = p]]
  /\ UNCHANGED <<platforms, conversations, messages, logs, outbox, clock, faults,
                 hasCredential, selVars, wsVars, fnVars, statVars, http, hook>>

\* platform = await storage.createPlatform({...})
CreatePlatform(r) ==
  /\ runs[r].pc = "createPlatform"
  /\ LET p == createPlatform(Source(r)) IN
     /\ platforms' = Append(platforms, p)
     /\ runs' = [runs EXCEPT ![r] =
          [Goto(r, "getAllConversations", <<"getAllConversations">>)
             EXCEPT !.platform = p]]
  /\ UNCHANGED <<conversations, messages, logs, outbox, clock, faults, hasCredential, selVars, wsVars, fnVars, statVars, http, hook>>

\* let conversation = await storage.getAllConversations().then(convs => convs.find(...))
GetAllConversations(r) ==
  /\ runs[r].pc = "getAllConversations"
  /\ LET found == findConversation(runs[r].platform.id, runs[r].msg.from) IN
     IF found = {}
       THEN runs' = [runs EXCEPT ![r] =
              [Goto(r, "createConversation", <<"createConversation">>)
                 EXCEPT !.sawConvs = Len(conversations)]]
       ELSE \E c \in found :
              runs' = [runs EXCEPT ![r] =
                [Goto(r, "createUserMessage", <<"createUserMessage">>)
                   EXCEPT !.conversation = c, !.sawConvs = Len(conversations)]]
  /\ UNCHANGED <<platforms, conversations, messages, logs, outbox, clock, faults,
                 hasCredential, selVars, wsVars, fnVars, statVars, http, hook>>

\* conversation = await storage.createConversation({...})
CreateConversation(r) ==
  /\ runs[r].pc = "createConversation"
  /\ LET c == createConversation(runs[r].platform.id, runs[r].msg.from,
                                 runs[r].sawConvs) IN
     /\ conversations' = Append(conversations, c)
     /\ runs' = [runs EXCEPT ![r] =
          [Goto(r, "createUserMessage", <<"createUserMessage">>)
             EXCEPT !.conversation = c]]
  /\ UNCHANGED <<platforms, messages, logs, outbox, clock, faults, hasCredential, selVars, wsVars, fnVars, statVars, http, hook>>

\* await storage.createMessage({ sender: 'user', ... }) completes; the handler
\* goes on, without yielding to another delivery, through
\*   const {response, confidence, templateId} = await this.trainer.generateResponse(...)
\*   const responseTime = Date.now() - startTime
\* (SimpleMLTrainer.generateResponse awaits nothing) and issues the insert of
\* the bot message
CreateUserMessage(r) ==
  /\ runs[r].pc = "createUserMessage"
  /\ messages' = messages \cup
       {createMessage(runs[r].conversation.id, Content(runs[r].msg.text), "user",
                      0, 0, 0, r)}
  /\ LET g == SimpleGenerateResponse(runs[r].msg.text) IN
     runs' = [runs EXCEPT ![r] =
       [Goto(r, "createBotMessage", <<"generateResponse", "createBotMessage">>)
          EXCEPT !.response = g.response,
                 !.confidence = g.confidence,
                 !.templateId = g.templateId,
                 !.responseTime = clock - runs[r].startTime]]
  /\ UNCHANGED <<platforms, conversations, logs, outbox, clock, faults, hasCredential, selVars, wsVars, fnVars, statVars, http, hook>>

\* await storage.createMessage({ sender: 'bot', ... }) completes and
\* sendMessage is entered: without the credential it warns on the console and
\* returns at once, and the handler issues updatePlatform; with it, the fetch
\* to the platform API is issued
CreateBotMessage(r) ==
  /\ runs[r].pc = "createBotMessage"
  /\ messages' = messages \cup
       {createMessage(runs[r].conversation.id, runs[r].response, "bot",
                      runs[r].confidence, runs[r].responseTime, runs[r].templateId, r)}
  /\ runs' = [runs EXCEPT ![r] =
       IF hasCredential[Source(r)]
         THEN Goto(r, "sendMessage", <<"sendMessage">>)
         ELSE [Goto(r, "updatePlatform", <<"sendMessage", "updatePlatform">>)
                 EXCEPT !.sendResult = "nocred"]]
  /\ UNCHANGED <<platforms, conversations, logs, outbox, clock, faults, hasCredential, selVars, wsVars, fnVars, statVars, http, hook>>

\* the outcomes of the fetch of sendMessage: response.ok, or a failure
\* (non-ok response, or fetch rejects), which its catch block handles
FetchOutcomes == {"ok", "failed"}

\* mutant: the catch block of sendMessage rethrows after logging, as the one
\* of setWebhook does
AfterSendFailureLog_Rethrow == "catch"

\* mutant: the send is retried after a failure
AfterSendFailureLog_Retry == "sendMessage"

\* where processIncomingMessage continues once sendMessage's catch block has
\* written its Log: the catch does not rethrow, the handler issues updatePlatform
AfterSendFailureLog == "updatePlatform"

\* mutant: the text of the user is sent back
SendText_Echo(r) == Content(runs[r].msg.text)

\* the text argument of this.sendMessage(..., response)
SendText(r) == runs[r].response

\* the fetch of sendMessage completes
SendMessage(r) ==
  /\ runs[r].pc = "sendMessage"
  /\ \E outcome \in FetchOutcomes :
       /\ runs' = [runs EXCEPT ![r] =
            [(IF outcome = "failed"
                THEN Goto(r, "sendFailureLog", <<"sendFailureLog">>)
                ELSE Goto(r, "updatePlatform", <<"updatePlatform">>))
               EXCEPT !.sendResult = outcome]]
       /\ outbox' = IF outcome = "ok"
            THEN outbox \cup {[run |-> r, chan |-> Source(r), to |-> runs[r].msg.from,
                               text |-> SendText(r)]}
            ELSE outbox
  /\ UNCHANGED <<platforms, conversations, messages, logs, clock, faults, hasCredential, selVars, wsVars, fnVars, statVars, http, hook>>

\* catch (error) { await storage.createLog({level: 'error', ...}) } in sendMessage
SendFailureLog(r) ==
  /\ runs[r].pc = "sendFailureLog"
  /\ logs' = logs \cup {createLog("error", "Failed to send message", Source(r), r)}
  /\ runs' = [runs EXCEPT ![r] =
       Goto(r, AfterSendFailureLog,
            IF AfterSendFailureLog = "catch" THEN <<>> ELSE <<AfterSendFailureLog>>)]
  /\ UNCHANGED <<platforms, conversations, messages, outbox, clock, faults, hasCredential, selVars, wsVars, fnVars, statVars, http, hook>>

\* await storage.updatePlatform(platform.id, {messagesCount: platform.messagesCount + 1,
\*                                            lastMessageAt: new Date()})
UpdatePlatform(r) ==
  /\ runs[r].pc = "updatePlatform"
  /\ platforms' = updatePlatform(runs[r].platform.id,
                                 PlatformCountUpdate(runs[r].platform), clock)
  /\ runs' = [runs EXCEPT ![r] = Goto(r, "updateConversation", <<"updateConversation">>)]
  /\ UNCHANGED <<conversations, messages, logs, outbox, clock, faults, hasCredential, selVars, wsVars, fnVars, statVars, http, hook>>

\* await storage.updateConversation(conversation.id,
\*   {messagesCount: conversation.messagesCount + 2, lastMessageAt: new Date()})
UpdateConversation(r) ==
  /\ runs[r].pc = "updateConversation"
  /\ conversations' = updateConversation(runs[r].conversation.id,
                                         ConversationCountUpdate(runs[r].conversation), clock)
  /\ runs' = [runs EXCEPT ![r] = Goto(r, "createSuccessLog", <<"createSuccessLog">>)]
  /\ UNCHANGED <<platforms, messages, logs, outbox, clock, faults, hasCredential, selVars, wsVars, fnVars, statVars, http, hook>>

\* await storage.createLog({level: 'info', message: '... processed successfully'});
\* Telegram's handleMessage then answers res.status(200).send('OK')
CreateSuccessLog(r) ==
  /\ runs[r].pc = "createSuccessLog"
  /\ logs' = logs \cup {createLog("info", "message processed successfully", Source(r), r)}
  /\ runs' = [runs EXCEPT ![r] =
       [Goto(r, "done", <<>>)
          EXCEPT !.ack = IF AwaitsRun(Source(r)) THEN HTTP_OK ELSE @]]
  /\ UNCHANGED <<platforms, conversations, messages, outbox, clock, faults, hasCredential, selVars, wsVars, fnVars, statVars, http, hook>>

\* a store call awaited inside the try block rejects: control moves to the
\* catch block of processIncomingMessage, which issues its createLog
StoreThrows(r) ==
  /\ runs[r].pc \in StoreAwaits
  /\ faults < MaxFaults
  /\ faults' = faults + 1
  /\ runs' = [runs EXCEPT ![r] = [Goto(r, "catch", <<>>) EXCEPT !.threw = TRUE]]
  /\ UNCHANGED <<platforms, conversations, messages, logs, outbox, clock, hasCredential, selVars, wsVars, fnVars, statVars, http, hook>>

\* catch (error) { await storage.createLog({level: 'error', message: 'Failed to process ...'}) }
\* processIncomingMessage returns normally; Telegram's handleMessage answers 200
CatchLog(r) ==
  /\ runs[r].pc = "catch"
  /\ logs' = logs \cup {createLog("error", "Failed to process message", Source(r), r)}
  /\ runs' = [runs EXCEPT ![r] =
       [Goto(r, "failed", <<>>)
          EXCEPT !.ack = IF AwaitsRun(Source(r)) THEN HTTP_OK ELSE @]]
  /\ UNCHANGED <<platforms, conversations, messages, outbox, clock, faults, hasCredential, selVars, wsVars, fnVars, statVars, http, hook>>

\* the createLog of that catch block rejects: processIncomingMessage rejects.
\* Telegram's handleMessage catches it and issues its own createLog; in
\* WhatsApp/Messenger the rejection of the forEach(async ...) callback is unhandled.
CatchLogThrows(r) ==
  /\ runs[r].pc = "catch"
  /\ faults < MaxFaults
  /\ faults' = faults + 1
  /\ runs' = [runs EXCEPT ![r] =
       Goto(r, IF AwaitsRun(Source(r)) THEN "handlerCatch" ELSE "failed", <<>>)]
  /\ UNCHANGED <<platforms, conversations, messages, logs, outbox, clock, hasCredential, selVars, wsVars, fnVars, statVars, http, hook>>

\* handleMessage: catch (error) { await storage.createLog(...); res.status(500).send(...) }
HandlerCatchLog(r) ==
  /\ runs[r].pc = "handlerCatch"
  /\ logs' = logs \cup {createLog("error", "webhook processing failed", Source(r), r)}
  /\ runs' = [runs EXCEPT ![r] = [Goto(r, "failed", <<>>) EXCEPT !.ack = HTTP_ERROR]]
  /\ UNCHANGED <<platforms, conversations, messages, outbox, clock, faults, hasCredential, selVars, wsVars, fnVars, statVars, http, hook>>

\* that createLog rejects too: handleMessage rejects and no answer is written
HandlerCatchLogThrows(r) ==
  /\ runs[r].pc = "handlerCatch"
  /\ faults < MaxFaults
  /\ faults' = faults + 1
  /\ runs' = [runs EXCEPT ![r] = Goto(r, "failed", <<>>)]
  /\ UNCHANGED <<platforms, conversations, messages, logs, outbox, clock, hasCredential, selVars, wsVars, fnVars, statVars, http, hook>>

----------------------------------------------------------------------------
(* Specifications of the pipeline                                          *)

Step(r) ==
  \/ GetPlatformByName(r)
  \/ CreatePlatform(r)
  \/ GetAllConversations(r)
  \/ CreateConversation(r)
  \/ CreateUserMessage(r)
  \/ CreateBotMessage(r)
  \/ SendMessage(r)
  \/ SendFailureLog(r)
  \/ UpdatePlatform(r)
  \/ UpdateConversation(r)
  \/ CreateSuccessLog(r)
  \/ StoreThrows(r)
  \/ CatchLog(r)
  \/ CatchLogThrows(r)
  \/ HandlerCatchLog(r)
  \/ HandlerCatchLogThrows(r)

\* webhook deliveries interleave freely
Next ==
  \/ \E r \in Runs, m \in InboundMessages : Receive(r, m)
  \/ \E r \in Runs : Step(r)

Spec == Init /\ [][Next]_vars

\* a delivery arrives only when no run is in progress, and time passes
ReceiveSeq(r, m) ==
  /\ \A o \in Runs : ~Active(o)
  /\ Receive(r, m)

NextSeq ==
  \/ Tick
  \/ \E r \in Runs, m \in InboundMessages : ReceiveSeq(r, m)
  \/ \E r \in Runs : Step(r)

SpecSeq == Init /\ [][NextSeq]_vars

----------------------------------------------------------------------------
(* Response selection outside the pipeline, and the routes that configure it *)

\* PATCH /api/bot/config -> DatabaseStorage.updateBotConfig: updates the row,
\* or inserts it (the column defaults fill what the body leaves out)
UpdateBotConfig(k) ==
  /\ botConfig' = [present |-> TRUE, confidenceThreshold |-> k,
                   fallbackMessage |-> DefaultFallbackMessage]
  /\ UNCHANGED <<templates, sel, selections, pipelineVars, wsVars, fnVars, statVars, http, hook>>

\* POST /api/templates -> DatabaseStorage.createTemplate
CreateTemplate(t) ==
  /\ Len(templates) < MaxTemplates
  /\ templates' = Append(templates,
       [id |-> Len(templates) + 1, name |-> t.name, category |-> t.category,
        content |-> t.content, variables |-> t.variables,
        isActive |-> t.isActive, usageCount |-> 0])
  /\ UNCHANGED <<botConfig, sel, selections, pipelineVars, wsVars, fnVars, statVars, http, hook>>

\* POST /api/bot/test -> mlTrainer.generateResponse(message, platformId), with
\* mlTrainer = new SimpleMLTrainer(): the selector of the pipeline
\* mutant: the tested text is stored as a message of the platform
TestBot_StoresMessage(text) ==
  /\ text # T_empty
  /\ selections < MaxSelections
  /\ selections' = selections + 1
  /\ messages' = messages \cup {createMessage(0, Content(text), "user", 0, 0, 0, 0)}
  /\ LET g == SimpleGenerateResponse(text) IN
     sel' = [trainer |-> "SimpleMLTrainer", text |-> text, response |-> g.response,
             confidence |-> g.confidence, templateId |-> g.templateId,
             threshold |-> botConfig.confidenceThreshold,
             fallbackMessage |-> botConfig.fallbackMessage, threw |-> FALSE]
  /\ UNCHANGED <<botConfig, templates, platforms, conversations, logs, outbox, runs,
                 clock, faults, hasCredential, wsVars, fnVars, statVars, http, hook>>

\* (a request without message, or with the empty one, is answered 400 before
\* the selector is called)
TestBot(text) ==
  /\ text # T_empty
  /\ selections < MaxSelections
  /\ selections' = selections + 1
  /\ LET g == SimpleGenerateResponse(text) IN
     sel' = [trainer |-> "SimpleMLTrainer", text |-> text, response |-> g.response,
             confidence |-> g.confidence, templateId |-> g.templateId,
             threshold |-> botConfig.confidenceThreshold,
             fallbackMessage |-> botConfig.fallbackMessage, threw |-> FALSE]
  /\ UNCHANGED <<botConfig, templates, pipelineVars, wsVars, fnVars, statVars, http, hook>>

\* The content of a template is a sequence of pieces: texts without braces
\* and placeholders "{variable}", each placeholder one piece.
Placeholder(variable) == "{" \o variable \o "}"

\* response.replace(pattern, value) with a string pattern: the first
\* occurrence only
replace(response, pattern, value) ==
  IF \E i \in 1..Len(response) : response[i] = pattern
    THEN LET first == CHOOSE i \in 1..Len(response) :
                        /\ response[i] = pattern
                        /\ \A j \in 1..(i - 1) : response[j] # pattern
         IN [response EXCEPT ![first] = value]
    ELSE response

\* processed.entities[variable]; "" stands for undefined
EntityValue(entities, variable) ==
  IF variable \in DOMAIN entities THEN entities[variable] ELSE ""

\* for (const variable of matchingTemplate.variables) { if (entityValue) replace }
RECURSIVE SubstituteVariables(_, _, _)
SubstituteVariables(response, variables, entities) ==
  IF variables = <<>> THEN response
  ELSE LET variable == Head(variables)
           entityValue == EntityValue(entities, variable)
       IN SubstituteVariables(
            IF entityValue # "" THEN replace(response, Placeholder(variable), entityValue)
                                ELSE response,
            Tail(variables), entities)

\* let response = matchingTemplate.content; if (variables && entities) {...}
ReplaceVariables(matchingTemplate, entities) ==
  SubstituteVariables(matchingTemplate.content, matchingTemplate.variables, entities)

\* the pieces as one text
RECURSIVE Join(_)
Join(pieces) == IF pieces = <<>> THEN "" ELSE Head(pieces) \o Join(Tail(pieces))

\* contents and variables lists of templates
SubstContents ==
  { <<"Welcome!">>,
    <<"Hi ", "{name}">>,
    <<"Hi ", "{name}", ", order ", "{orderNumber}">>,
    <<"{orderNumber}", " is on its way, ", "{name}">>,
    <<"{name}", ", dear ", "{name}">>,
    <<"Order ", "{orderNumber}", ": ", "{orderNumber}", " shipped">> }

SubstVariables ==
  { <<>>, <<"name">>, <<"orderNumber">>, <<"name", "orderNumber">>,
    <<"orderNumber", "name">> }

\* values of processed.entities: {} is what SimpleNLPProcessor returns; the
\* others are what the block is written for
EntityInputs ==
  { NoEntities,
    [v \in {"name"} |-> "Sam"],
    [v \in {"orderNumber"} |-> "A-17"],
    [v \in {"name", "orderNumber"} |-> IF v = "name" THEN "Sam" ELSE "A-17"] }

\* the block of generateResponse that fills a matching template
FillTemplate(content, variables, entities) ==
  /\ subst' = [done |-> TRUE, content |-> content, variables |-> variables,
               entities |-> entities,
               response |-> ReplaceVariables([content |-> content, variables |-> variables],
                                             entities)]
  /\ UNCHANGED <<verified, hist, trainCalls, pipelineVars, selVars, wsVars, statVars, http, hook>>

NextSubst ==
  \E content \in SubstContents, variables \in SubstVariables, entities \in EntityInputs :
    FillTemplate(content, variables, entities)

\* mutant: the usage of the template is not counted
UsageCountUpdate_Same(matchingTemplate) == matchingTemplate.usageCount

\* usageCount: matchingTemplate.usageCount + 1
UsageCountUpdate(matchingTemplate) == matchingTemplate.usageCount + 1

\* DatabaseStorage.updateTemplate(id, {usageCount})
updateTemplate(id, usageCount) ==
  [templates EXCEPT ![id] = [@ EXCEPT !.usageCount = usageCount]]

\* MLTrainer.generateResponse without a configuration row:
\* throw new Error('Bot configuration not found')
MLGenerateResponseNoConfig(text) ==
  /\ selections < MaxSelections
  /\ ~botConfig.present
  /\ selections' = selections + 1
  /\ sel' = [NoSelection EXCEPT !.trainer = "MLTrainer", !.text = text,
               !.confidence = processMessage(text).confidence, !.threw = TRUE]
  /\ UNCHANGED <<botConfig, templates, pipelineVars, wsVars, fnVars, statVars, http, hook>>

\* MLTrainer.generateResponse, confidence below the threshold
MLGenerateResponseFallback(text) ==
  /\ selections < MaxSelections
  /\ botConfig.present
  /\ LET processed == processMessage(text) IN
     /\ BelowThreshold(processed.confidence, botConfig.confidenceThreshold)
     /\ sel' = [trainer |-> "MLTrainer", text |-> text,
                response |-> botConfig.fallbackMessage,
                confidence |-> processed.confidence, templateId |-> 0,
                threshold |-> botConfig.confidenceThreshold,
                fallbackMessage |-> botConfig.fallbackMessage, threw |-> FALSE]
  /\ selections' = selections + 1
  /\ UNCHANGED <<botConfig, templates, pipelineVars, wsVars, fnVars, statVars, http, hook>>

\* MLTrainer.generateResponse, a template matches: templates.find takes the
\* first match of the unordered result of getAllTemplates; processed.entities
\* is {} (SimpleNLPProcessor), so no placeholder is replaced; usageCount + 1
MLGenerateResponseTemplate(text) ==
  /\ selections < MaxSelections
  /\ botConfig.present
  /\ LET processed == processMessage(text) IN
     /\ ~BelowThreshold(processed.confidence, botConfig.confidenceThreshold)
     /\ \E i \in 1..Len(templates) :
          /\ TemplateMatches(templates[i], processed.intent)
          /\ templates' = updateTemplate(i, UsageCountUpdate(templates[i]))
          /\ sel' = [trainer |-> "MLTrainer", text |-> text,
                     response |-> Join(ReplaceVariables(templates[i], processed.entities)),
                     confidence |-> processed.confidence, templateId |-> i,
                     threshold |-> botConfig.confidenceThreshold,
                     fallbackMessage |-> botConfig.fallbackMessage, threw |-> FALSE]
  /\ selections' = selections + 1
  /\ UNCHANGED <<botConfig, pipelineVars, wsVars, fnVars, statVars, http, hook>>

\* mutant: the canned response is counted as a use of the first template
MLGenerateResponseCanned_CountsUse(text) ==
  /\ selections < MaxSelections
  /\ botConfig.present
  /\ LET processed == processMessage(text) IN
     /\ ~BelowThreshold(processed.confidence, botConfig.confidenceThreshold)
     /\ \A i \in 1..Len(templates) : ~TemplateMatches(templates[i], processed.intent)
     /\ sel' = [trainer |-> "MLTrainer", text |-> text,
                response |-> CannedOrFallback(processed.intent, botConfig),
                confidence |-> processed.confidence, templateId |-> 0,
                threshold |-> botConfig.confidenceThreshold,
                fallbackMessage |-> botConfig.fallbackMessage, threw |-> FALSE]
  /\ selections' = selections + 1
  /\ templates' = IF templates = <<>> THEN templates
                  ELSE updateTemplate(1, UsageCountUpdate(templates[1]))
  /\ UNCHANGED <<botConfig, pipelineVars, wsVars, fnVars, statVars, http, hook>>

\* MLTrainer.generateResponse, no template matches: the canned response of the
\* intent, or the fallback message when the table has none
MLGenerateResponseCanned(text) ==
  /\ selections < MaxSelections
  /\ botConfig.present
  /\ LET processed == processMessage(text) IN
     /\ ~BelowThreshold(processed.confidence, botConfig.confidenceThreshold)
     /\ \A i \in 1..Len(templates) : ~TemplateMatches(templates[i], processed.intent)
     /\ sel' = [trainer |-> "MLTrainer", text |-> text,
                response |-> CannedOrFallback(processed.intent, botConfig),
                confidence |-> processed.confidence, templateId |-> 0,
                threshold |-> botConfig.confidenceThreshold,
                fallbackMessage |-> botConfig.fallbackMessage, threw |-> FALSE]
  /\ selections' = selections + 1
  /\ UNCHANGED <<botConfig, templates, pipelineVars, wsVars, fnVars, statVars, http, hook>>

NextSelect ==
  \/ \E k \in Thresholds : UpdateBotConfig(k)
  \/ \E t \in TemplateInputs : CreateTemplate(t)
  \/ \E text \in SelectTexts : TestBot(text)
  \/ \E text \in SelectTexts : MLGenerateResponseNoConfig(text)
  \/ \E text \in SelectTexts : MLGenerateResponseFallback(text)
  \/ \E text \in SelectTexts : MLGenerateResponseTemplate(text)
  \/ \E text \in SelectTexts : MLGenerateResponseCanned(text)

\* the selectors alone: no webhook is delivered
InitSelect == Init /\ hasCredential = [c \in Channels |-> TRUE]

SpecSelect == InitSelect /\ [][NextSelect]_vars

----------------------------------------------------------------------------
(* WebSocketManager                                                        *)

\* the messages sendInitialData sends, in its order
SnapshotTypes == <<"stats_update", "platform_status", "new_message", "ml_update">>

\* positions of sendInitialData: the snapshot message whose read it awaits
Pending == { SnapshotTypes[i] : i \in 1..Len(SnapshotTypes) }

\* mutant: the recent messages are sent before the platform list
AfterSnapshot_Swapped(t) ==
  CASE t = "stats_update" -> "new_message"
    [] t = "new_message" -> "platform_status"
    [] t = "platform_status" -> "ml_update"
    [] OTHER -> "sent"

\* the position after the message of type t has been sent
AfterSnapshot(t) ==
  LET i == CHOOSE k \in 1..Len(SnapshotTypes) : SnapshotTypes[k] = t IN
  IF i = Len(SnapshotTypes) THEN "sent" ELSE SnapshotTypes[i + 1]

\* mutant: the message is handed to the socket whatever its readyState
sendToClient_Unguarded(box, o, message) == [box EXCEPT ![o] = Append(@, message)]

\* sendToClient: if (ws.readyState === WebSocket.OPEN) ws.send(...)
sendToClient(box, o, message) ==
  IF sockets[o] = "open" THEN [box EXCEPT ![o] = Append(@, message)] ELSE box

RECURSIVE sendToAll(_, _, _)
sendToAll(box, targets, message) ==
  IF targets = {} THEN box
  ELSE LET o == CHOOSE x \in targets : TRUE IN
       sendToAll(sendToClient(box, o, message), targets \ {o}, message)

\* broadcast: this.clients.forEach(client => this.sendToClient(client, message))
broadcast(message) == sendToAll(inbox, clients, message)

\* wss.on('connection'): this.clients.add(ws); the close and error handlers
\* are registered; sendInitialData(ws) is started and issues its first read
Connect(o) ==
  /\ sockets[o] = "none"
  /\ sockets' = [sockets EXCEPT ![o] = "open"]
  /\ clients' = clients \cup {o}
  /\ snapshot' = [snapshot EXCEPT ![o] = SnapshotTypes[1]]
  /\ UNCHANGED <<inbox, broadcasts, pipelineVars, selVars, fnVars, statVars, http, hook>>

\* sendInitialData: the awaited read of the k-th snapshot message completes
\* (calculateStats, getAllPlatforms, getRecentMessages(10), getCurrentMlModel)
\* and the message is sent to this observer
SendInitialData(o) ==
  /\ snapshot[o] \in Pending
  /\ inbox' = sendToClient(inbox, o, [type |-> snapshot[o], from |-> "snapshot"])
  /\ snapshot' = [snapshot EXCEPT ![o] = AfterSnapshot(snapshot[o])]
  /\ UNCHANGED <<clients, sockets, broadcasts, pipelineVars, selVars, fnVars, statVars, http, hook>>

\* sendInitialData: an awaited read rejects; catch (error) { console.error(...) }
SendInitialDataThrows(o) ==
  /\ snapshot[o] \in Pending
  /\ snapshot' = [snapshot EXCEPT ![o] = "aborted"]
  /\ UNCHANGED <<clients, sockets, inbox, broadcasts, pipelineVars, selVars, fnVars, statVars, http, hook>>

\* setInterval(..., 30000): calculateStats, then broadcast stats_update
TimerStats ==
  /\ broadcasts < MaxBroadcasts
  /\ broadcasts' = broadcasts + 1
  /\ inbox' = broadcast([type |-> "stats_update", from |-> "timer"])
  /\ UNCHANGED <<clients, sockets, snapshot, pipelineVars, selVars, fnVars, statVars, http, hook>>

\* setInterval(..., 60000): getAllPlatforms, then broadcast platform_status
TimerPlatforms ==
  /\ broadcasts < MaxBroadcasts
  /\ broadcasts' = broadcasts + 1
  /\ inbox' = broadcast([type |-> "platform_status", from |-> "timer"])
  /\ UNCHANGED <<clients, sockets, snapshot, pipelineVars, selVars, fnVars, statVars, http, hook>>

\* POST /api/platforms, PATCH /api/platforms/:id: wsManager.notifyPlatformUpdate
NotifyPlatformUpdate ==
  /\ broadcasts < MaxBroadcasts
  /\ broadcasts' = broadcasts + 1
  /\ inbox' = broadcast([type |-> "platform_status", from |-> "route"])
  /\ UNCHANGED <<clients, sockets, snapshot, pipelineVars, selVars, fnVars, statVars, http, hook>>

\* POST /api/ml/train: wsManager.notifyMlUpdate
NotifyMlUpdate ==
  /\ broadcasts < MaxBroadcasts
  /\ broadcasts' = broadcasts + 1
  /\ inbox' = broadcast([type |-> "ml_update", from |-> "route"])
  /\ UNCHANGED <<clients, sockets, snapshot, pipelineVars, selVars, fnVars, statVars, http, hook>>

\* the transport of an observer goes down: readyState leaves OPEN
SocketCloses(o) ==
  /\ sockets[o] = "open"
  /\ sockets' = [sockets EXCEPT ![o] = "closing"]
  /\ UNCHANGED <<clients, snapshot, inbox, broadcasts, pipelineVars, selVars, fnVars, statVars, http, hook>>

\* mutant: the handlers of close and error leave the set as it is
OnClose_KeepsClient(o) ==
  /\ sockets[o] = "closing"
  /\ sockets' = [sockets EXCEPT ![o] = "closed"]
  /\ UNCHANGED <<clients, snapshot, inbox, broadcasts, pipelineVars, selVars, fnVars, statVars, http, hook>>

\* ws.on('close') / ws.on('error'): this.clients.delete(ws)
OnClose(o) ==
  /\ sockets[o] = "closing"
  /\ sockets' = [sockets EXCEPT ![o] = "closed"]
  /\ clients' = clients \ {o}
  /\ UNCHANGED <<snapshot, inbox, broadcasts, pipelineVars, selVars, fnVars, statVars, http, hook>>

NextWS ==
  \/ \E o \in Observers : Connect(o)
  \/ \E o \in Observers : SendInitialData(o)
  \/ \E o \in Observers : SendInitialDataThrows(o)
  \/ TimerStats
  \/ TimerPlatforms
  \/ NotifyPlatformUpdate
  \/ NotifyMlUpdate
  \/ \E o \in Observers : SocketCloses(o)
  \/ \E o \in Observers : OnClose(o)

\* the fan-out channel alone: no webhook is delivered
InitWS == Init /\ hasCredential = [c \in Channels |-> TRUE]

SpecWS == InitWS /\ [][NextWS]_vars

----------------------------------------------------------------------------
(* verifyWebhook of WhatsAppHandler and MessengerHandler                   *)

VerifyChannels == {"whatsapp", "messenger"}

\* values of process.env.WHATSAPP_VERIFY_TOKEN / MESSENGER_VERIFY_TOKEN
VerifyEnv == {Undefined, "s3cret"}

\* query parameters of the GET request
VerifyModes == {Undefined, "subscribe", "unsubscribe"}
VerifyTokens == {Undefined, "", "s3cret", "guess"}
VerifyChallenges == {Undefined, "1158201444", "challenge_accepted"}

\* the secret the token is compared with: process.env.WHATSAPP_VERIFY_TOKEN
\* as it is, process.env.MESSENGER_VERIFY_TOKEN || ''
ConfiguredSecret(chan, env) ==
  IF chan = "messenger" /\ env = Undefined THEN "" ELSE env

\* mutant: the mode is not looked at
VerifyAccepts_TokenOnly(mode, token, secret) == token = secret

\* mode === 'subscribe' && token === <secret>
VerifyAccepts(mode, token, secret) == mode = "subscribe" /\ token = secret

\* res.send(x): the body written; send(undefined) writes an empty body
SendBody(x) == IF x = Undefined THEN "" ELSE x

verifyWebhook(chan, mode, token, challenge, env) ==
  LET secret == ConfiguredSecret(chan, env) IN
  IF VerifyAccepts(mode, token, secret)
    THEN [chan |-> chan, mode |-> mode, token |-> token, challenge |-> challenge,
          secret |-> secret, status |-> HTTP_OK, body |-> SendBody(challenge)]
    ELSE [chan |-> chan, mode |-> mode, token |-> token, challenge |-> challenge,
          secret |-> secret, status |-> HTTP_FORBIDDEN, body |-> "Forbidden"]

\* GET /webhook/whatsapp, GET /webhook/messenger
VerifyWebhook(chan, mode, token, challenge, env) ==
  /\ verified' = verifyWebhook(chan, mode, token, challenge, env)
  /\ UNCHANGED <<subst, hist, trainCalls, pipelineVars, selVars, wsVars, statVars, http, hook>>

NextVerify ==
  \E chan \in VerifyChannels, mode \in VerifyModes, token \in VerifyTokens,
     challenge \in VerifyChallenges, env \in VerifyEnv :
    VerifyWebhook(chan, mode, token, challenge, env)

SpecVerify == InitWS /\ [][NextVerify]_vars

----------------------------------------------------------------------------
(* SimpleNLPProcessor as an object: processMessage and trainClassifier     *)

MaxCalls == 3
MaxTrainCalls == 2

\* texts given to processMessage
ClassifyTexts ==
  { <<" ","h","i"," ">>,
    <<"g","r","e","a","t"," ","H","E","L","P">>,
    <<"b","a","d"," ","p","r","i","c","e">>,
    <<"i"," ","l","o","v","e"," ","t","h","e"," ","g","o","o","d"," ","d","e","l","i","v","e","r","y">>,
    <<"x","y","z","z","y">>,
    <<"t","h","a","n","k","s"," ","f","o","r"," ","a","l","l"," ","t","h","e"," ","h","a","p","p","y"," ","p","l","e","a","s","e","d"," ","g","r","e","a","t"," ","w","o","n","d","e","r","f","u","l"," ","d","a","y","s">>,
    <<"H","E","L","P"," ","w","i","t","h"," ","s","h","i","p","p","i","n","g">>,
    <<"t","h","a","n","k","s"," ","b","y","e">>,
    <<"h","e","l","l","o"," ","h","i"," ","h","e","y">> }

\* arguments of trainClassifier
TrainingExamples ==
  { <<>>, <<[text |-> T_hello, intent |-> "farewell"]>>,
    <<[text |-> T_xyzzy, intent |-> "greeting"], [text |-> T_price, intent |-> "greeting"]>> }

\* mutant: the classifier learns: once trained, it answers the default intent
Classify_Learned(text) ==
  /\ Len(hist) < MaxCalls
  /\ hist' = Append(hist,
       [text |-> text,
        result |-> IF trainCalls > 0
                     THEN [processMessage(text) EXCEPT !.intent = "general_inquiry"]
                     ELSE processMessage(text),
        trained |-> trainCalls])
  /\ UNCHANGED <<verified, subst, trainCalls, pipelineVars, selVars, wsVars, statVars, http, hook>>

\* a call of processMessage(text): the object has no field to read or write
Classify(text) ==
  /\ Len(hist) < MaxCalls
  /\ hist' = Append(hist,
       [text |-> text, result |-> processMessage(text), trained |-> trainCalls])
  /\ UNCHANGED <<verified, subst, trainCalls, pipelineVars, selVars, wsVars, statVars, http, hook>>

\* trainClassifier(examples): console.log(`Training with ${examples.length} examples`)
TrainClassifier(examples) ==
  /\ trainCalls < MaxTrainCalls
  /\ trainCalls' = trainCalls + 1
  /\ UNCHANGED <<verified, subst, hist, pipelineVars, selVars, wsVars, statVars, http, hook>>

NextClassify ==
  \/ \E text \in ClassifyTexts : Classify(text)
  \/ \E examples \in TrainingExamples : TrainClassifier(examples)

SpecClassify == InitWS /\ [][NextClassify]_vars

\* the substitution block alone
SpecSubst == InitWS /\ [][NextSubst]_vars

\* the pipeline with observers connected: registerRoutes constructs the
\* WebSocketManager and the handlers side by side
NextLive ==
  \/ \E r \in Runs, m \in InboundMessages : ReceiveSeq(r, m)
  \/ \E r \in Runs : Step(r)
  \/ \E o \in Observers : Connect(o)
  \/ \E o \in Observers : SendInitialData(o)

SpecLive == InitWS /\ [][NextLive]_vars

----------------------------------------------------------------------------
(* calculateStats of WebSocketManager, over the rows of table messages     *)

MaxStored == 4
MaxResponseTime == 3

\* limit of the read of calculateStats
StatsWindow == 1000

RowsOfSender(rows, sender) == { i \in 1..Len(rows) : rows[i].sender = sender }

\* the handlers store the user message of a run, without response time, and
\* then its bot message, with responseTime = Date.now() - startTime
StoreUserMessage ==
  /\ Len(stored) < MaxStored
  /\ stored' = Append(stored, [sender |-> "user", responseTime |-> Null])
  /\ UNCHANGED <<stats, pipelineVars, selVars, wsVars, fnVars, http, hook>>

StoreBotMessage(responseTime) ==
  /\ Len(stored) < MaxStored
  /\ Cardinality(RowsOfSender(stored, "bot")) < Cardinality(RowsOfSender(stored, "user"))
  /\ stored' = Append(stored, [sender |-> "bot", responseTime |-> {responseTime}])
  /\ UNCHANGED <<stats, pipelineVars, selVars, wsVars, fnVars, http, hook>>

\* db.select().from(messages).orderBy(desc(messages.sentAt)).limit(limit)
getRecentMessages(limit) ==
  LET n == Len(stored)
      k == IF n < limit THEN n ELSE limit
  IN [i \in 1..k |-> stored[n + 1 - i]]

\* m.responseTime as a condition: neither null nor 0
Truthy(responseTime) == responseTime # Null /\ responseTime # {0}

\* m.responseTime || 0
ValueOrZero(responseTime) ==
  IF Truthy(responseTime) THEN CHOOSE v \in responseTime : TRUE ELSE 0

\* Math.round(p / q) for p >= 0, q > 0
Round(p, q) == (2 * p + q) \div (2 * q)

RECURSIVE SumResponseTime(_, _)
SumResponseTime(rows, among) ==
  IF among = {} THEN 0
  ELSE LET i == CHOOSE k \in among : TRUE IN
       ValueOrZero(rows[i].responseTime) + SumResponseTime(rows, among \ {i})

\* responseRate and avgResponseTime of calculateStats
calculateStats(recentMessages) ==
  LET botMessages == { i \in RowsOfSender(recentMessages, "bot") :
                         Truthy(recentMessages[i].responseTime) }
      userMessages == RowsOfSender(recentMessages, "user")
  IN [computed |-> TRUE, recentMessages |-> recentMessages,
      avgResponseTime |->
        IF Cardinality(botMessages) > 0
          THEN Round(SumResponseTime(recentMessages, botMessages), Cardinality(botMessages))
          ELSE 0,
      responseRate |->
        IF Cardinality(userMessages) > 0
          THEN Round(Cardinality(botMessages) * 100, Cardinality(userMessages))
          ELSE 100]

\* sendInitialData / the 30 s timer: const stats = await this.calculateStats()
CalculateStats ==
  /\ stats' = calculateStats(getRecentMessages(StatsWindow))
  /\ UNCHANGED <<stored, pipelineVars, selVars, wsVars, fnVars, http, hook>>

NextStats ==
  \/ StoreUserMessage
  \/ \E responseTime \in 0..MaxResponseTime : StoreBotMessage(responseTime)
  \/ CalculateStats

SpecStats == InitWS /\ [][NextStats]_vars

----------------------------------------------------------------------------
(* The update and delete routes                                            *)

\* ids a request may address: those of the rows, and one beyond
RequestIds == 1..(MaxTemplates + 1)

\* parsed bodies: insertPlatformSchema.partial().parse(req.body) throws on an
\* invalid one
PlatformPatches ==
  { [valid |-> FALSE, messagesCount |-> 0], [valid |-> TRUE, messagesCount |-> 0] }

TemplatePatches ==
  { [valid |-> FALSE, isActive |-> FALSE], [valid |-> TRUE, isActive |-> FALSE] }

ExistsTemplate(id) == id \in 1..Len(templates) /\ templates[id].id = id

\* PATCH /api/platforms/:id. DatabaseStorage.updatePlatform returns the first
\* updated row: undefined when no row has the id, and the route then
\* broadcasts and answers res.json(undefined), an empty 200
PatchPlatform(id, body) ==
  LET found == id \in 1..Len(platforms)
      answer(status, text) ==
        [route |-> "PATCH /api/platforms/:id", id |-> id, valid |-> body.valid,
         found |-> found, status |-> status, body |-> text]
  IN /\ IF ~body.valid
          THEN /\ http' = answer(HTTP_BAD_REQUEST, "Invalid platform data")
               /\ UNCHANGED <<platforms, inbox>>
          ELSE /\ platforms' = IF found
                                 THEN [platforms EXCEPT ![id].messagesCount = body.messagesCount]
                                 ELSE platforms
               /\ inbox' = broadcast([type |-> "platform_status", from |-> "route"])
               /\ http' = answer(HTTP_OK, IF found THEN "platform" ELSE "")
     /\ UNCHANGED <<conversations, messages, logs, outbox, runs, clock, faults,
                    hasCredential, selVars, clients, sockets, snapshot, broadcasts,
                    fnVars, statVars, hook>>

\* PATCH /api/templates/:id
PatchTemplate(id, body) ==
  LET found == ExistsTemplate(id)
      answer(status, text) ==
        [route |-> "PATCH /api/templates/:id", id |-> id, valid |-> body.valid,
         found |-> found, status |-> status, body |-> text]
  IN /\ IF ~body.valid
          THEN /\ http' = answer(HTTP_BAD_REQUEST, "Invalid template data")
               /\ UNCHANGED templates
          ELSE /\ templates' = IF found
                                 THEN [templates EXCEPT ![id].isActive = body.isActive]
                                 ELSE templates
               /\ http' = answer(HTTP_OK, IF found THEN "template" ELSE "")
     /\ UNCHANGED <<botConfig, sel, selections, pipelineVars, wsVars, fnVars, statVars, hook>>

\* db.delete(templates).where(eq(templates.id, id))
deleteTemplate(id) ==
  IF ExistsTemplate(id) THEN [templates EXCEPT ![id] = DeletedTemplate] ELSE templates

\* mutant: the delete also removes the bot messages
DeleteTemplate_PurgesMessages(id) ==
  /\ templates' = deleteTemplate(id)
  /\ messages' = { m \in messages : m.sender # "bot" }
  /\ http' = [route |-> "DELETE /api/templates/:id", id |-> id, valid |-> TRUE,
              found |-> ExistsTemplate(id), status |-> HTTP_OK, body |-> "success"]
  /\ UNCHANGED <<botConfig, sel, selections, platforms, conversations, logs, outbox,
                 runs, clock, faults, hasCredential, wsVars, fnVars, statVars, hook>>

\* DELETE /api/templates/:id: the answer is {success: true} whether or not a
\* row was deleted
DeleteTemplate(id) ==
  /\ templates' = deleteTemplate(id)
  /\ http' = [route |-> "DELETE /api/templates/:id", id |-> id, valid |-> TRUE,
              found |-> ExistsTemplate(id), status |-> HTTP_OK, body |-> "success"]
  /\ UNCHANGED <<botConfig, sel, selections, pipelineVars, wsVars, fnVars, statVars, hook>>

\* the routes beside the deliveries of one webhook
NextAdmin ==
  \/ \E m \in InboundMessages : ReceiveSeq(1, m)
  \/ Step(1)
  \/ \E t \in TemplateInputs : CreateTemplate(t)
  \/ \E id \in RequestIds, body \in PlatformPatches : PatchPlatform(id, body)
  \/ \E id \in RequestIds, body \in TemplatePatches : PatchTemplate(id, body)
  \/ \E id \in RequestIds : DeleteTemplate(id)

SpecAdmin == InitWS /\ [][NextAdmin]_vars

\* POST /api/bot/test beside the deliveries of one webhook
NextTest ==
  \/ \E m \in InboundMessages : ReceiveSeq(1, m)
  \/ Step(1)
  \/ \E text \in SelectTexts : TestBot(text)

SpecTest == InitWS /\ [][NextTest]_vars

----------------------------------------------------------------------------
(* One WhatsApp delivery that batches several messages of a known user      *)

\* the message every element of the batch carries
BatchMessage == [chan |-> "whatsapp", from |-> "u1", text |-> T_help]

\* the tables as an earlier delivery of the user has left them: the process
\* starts on a database that holds the platform, the conversation and the
\* two messages of that turn
EarlierPlatform ==
  [id |-> 1, name |-> "whatsapp", messagesCount |-> 1, lastMessageAt |-> 1]

EarlierConversation ==
  [id |-> 1, platformId |-> 1, userId |-> "u1", messagesCount |-> 2,
   lastMessageAt |-> 1, sawAtLookup |-> 0]

EarlierMessages ==
  { createMessage(1, Content(T_help), "user", 0, 0, 0, 0),
    createMessage(1, SimpleGenerateResponse(T_help).response, "bot",
                  FixedConfidence, 0, 0, 0) }

InitBatch ==
  /\ platforms = <<EarlierPlatform>>
  /\ conversations = <<EarlierConversation>>
  /\ messages = EarlierMessages
  /\ logs = {}
  /\ outbox = {}
  /\ runs = [r \in Runs |-> IdleRun]
  /\ clock = 1
  /\ faults = 0
  /\ hasCredential \in [Channels -> BOOLEAN]
  /\ botConfig = NoConfig
  /\ templates = <<>>
  /\ sel = NoSelection
  /\ selections = 0
  /\ clients = {}
  /\ sockets = [o \in Observers |-> "none"]
  /\ snapshot = [o \in Observers |-> "none"]
  /\ inbox = [o \in Observers |-> <<>>]
  /\ broadcasts = 0
  /\ verified = NoVerification
  /\ subst = NoSubstitution
  /\ hist = <<>>
  /\ trainCalls = 0
  /\ stored = <<>>
  /\ stats = NoStats
  /\ http = NoResponse
  /\ hook = NoHook

\* handleMessage of WhatsApp: messages.forEach(async message => await
\* this.processIncomingMessage(message)) starts one run per message, each up
\* to its first await, and then answers 200
ReceiveBatch ==
  /\ \A r \in Runs : runs[r].pc = "idle"
  /\ runs' = [r \in Runs |->
       [IdleRun EXCEPT !.pc = "getPlatformByName", !.msg = BatchMessage,
          !.startTime = clock,
          !.trace = <<"getPlatformByName">>,
          !.ack = HTTP_OK]]
  /\ UNCHANGED <<platforms, conversations, messages, logs, outbox, clock, faults,
                 hasCredential, selVars, wsVars, fnVars, statVars, http, hook>>

\* the steps of a run that finds its platform and its conversation
StepKnownUser(r) ==
  \/ GetPlatformByName(r)
  \/ GetAllConversations(r)
  \/ CreateUserMessage(r)
  \/ CreateBotMessage(r)
  \/ SendMessage(r)
  \/ SendFailureLog(r)
  \/ UpdatePlatform(r)
  \/ UpdateConversation(r)
  \/ CreateSuccessLog(r)
  \/ StoreThrows(r)
  \/ CatchLog(r)
  \/ CatchLogThrows(r)

NextBatch ==
  \/ ReceiveBatch
  \/ \E r \in Runs : StepKnownUser(r)

SpecBatch == InitBatch /\ [][NextBatch]_vars

----------------------------------------------------------------------------
(* useWebSocket of the dashboard: one hook instance and its sockets        *)

MaxConnections == 4

\* connect(): ws.current = new WebSocket(wsUrl), and the four handlers are
\* set on it (the URL is well-formed, so the constructor does not throw)
connect(h) ==
  [h EXCEPT !.ws = "connecting",
            !.opened = @ + 1,
            !.openedAfterCleanup = IF h.phase = "unmounted" THEN @ + 1 ELSE @]

\* onclose: setIsConnected(false); setTimeout(connect, 3000)
onclose(h, by) ==
  [h EXCEPT !.ws = "closed", !.isConnected = FALSE, !.timers = @ + 1, !.closes = @ + 1,
            !.closedBy = by]

\* handleWebSocketMessage: the query keys a message of the type invalidates
QueryKeys(type) ==
  CASE type = "stats_update" -> {"/api/dashboard/stats"}
    [] type = "new_message" -> {"/api/messages/recent", "/api/conversations"}
    [] type = "platform_status" -> {"/api/platforms"}
    [] type = "ml_update" -> {"/api/ml/model"}
    [] type = "log_update" -> {"/api/logs"}
    [] OTHER -> {}

\* the effect runs after the first render: connect()
Mount ==
  /\ hook.phase = "initial"
  /\ hook' = connect([hook EXCEPT !.phase = "mounted"])
  /\ UNCHANGED <<pipelineVars, selVars, wsVars, fnVars, statVars, http>>

\* onopen: setIsConnected(true)
SocketOpens ==
  /\ hook.ws = "connecting"
  /\ hook' = [hook EXCEPT !.ws = "open", !.isConnected = TRUE]
  /\ UNCHANGED <<pipelineVars, selVars, wsVars, fnVars, statVars, http>>

\* onmessage: a message of the server arrives on the open socket
OnMessage(type) ==
  /\ hook.ws = "open"
  /\ hook' = [hook EXCEPT !.invalidated = @ \cup QueryKeys(type)]
  /\ UNCHANGED <<pipelineVars, selVars, wsVars, fnVars, statVars, http>>

\* the connection fails or the server ends it: onerror (on a failure), then
\* onclose
SocketLost ==
  /\ hook.ws \in {"connecting", "open"}
  /\ hook' = onclose(hook, "peer")
  /\ UNCHANGED <<pipelineVars, selVars, wsVars, fnVars, statVars, http>>

\* the cleanup of the effect (unmount): if (ws.current) ws.current.close()
Cleanup ==
  /\ hook.phase = "mounted"
  /\ hook' = [hook EXCEPT !.phase = "unmounted",
                          !.ws = IF @ \in {"connecting", "open"} THEN "closing" ELSE @]
  /\ UNCHANGED <<pipelineVars, selVars, wsVars, fnVars, statVars, http>>

\* the close event of the socket the cleanup has closed: onclose
SocketClosed ==
  /\ hook.ws = "closing"
  /\ hook' = onclose(hook, "cleanup")
  /\ UNCHANGED <<pipelineVars, selVars, wsVars, fnVars, statVars, http>>

\* a timer set by onclose fires after 3 s: connect()
ReconnectTimer ==
  /\ hook.timers > 0
  /\ hook.opened < MaxConnections
  /\ hook' = connect([hook EXCEPT !.timers = @ - 1])
  /\ UNCHANGED <<pipelineVars, selVars, wsVars, fnVars, statVars, http>>

NextHook ==
  \/ Mount
  \/ SocketOpens
  \/ \E type \in Pending : OnMessage(type)
  \/ SocketLost
  \/ Cleanup
  \/ SocketClosed
  \/ ReconnectTimer

SpecHook == InitWS /\ [][NextHook]_vars

----------------------------------------------------------------------------
(* Properties                                                              *)

\* the run has issued the call
Issued(r, call) == \E i \in 1..Len(runs[r].trace) : runs[r].trace[i] = call

\* the calls of processIncomingMessage, in the order of the source
CallOrder ==
  <<"getPlatformByName", "createPlatform", "getAllConversations", "createConversation",
    "createUserMessage", "generateResponse", "createBotMessage", "sendMessage",
    "sendFailureLog", "updatePlatform", "updateConversation", "createSuccessLog">>

CallIndexOf ==
  [call \in {CallOrder[k] : k \in 1..Len(CallOrder)} |->
     CHOOSE k \in 1..Len(CallOrder) : CallOrder[k] = call]

CallIndex(call) == CallIndexOf[call]

\* the mandatory calls that precede the k-th call of CallOrder
MandatoryBefore ==
  [k \in 1..Len(CallOrder) |->
     {CallOrder[j] : j \in {i \in 1..(k - 1) : CallOrder[i] \notin {"createPlatform", "createConversation", "sendFailureLog"}}}]

FailurePositions == {"catch", "handlerCatch", "failed"}

DeliveryFailed(r) == runs[r].sendResult \in {"nocred", "failed"}

SamePair(c, d) == c.platformId = d.platformId /\ c.userId = d.userId

\* C1: the selector the pipeline invokes returns exactly the fallback message
\* if and only if the confidence is below the configured threshold.
C1_FallbackIffBelowThreshold ==
  (sel.trainer = "SimpleMLTrainer" /\ sel.fallbackMessage # "") =>
    ((sel.response = sel.fallbackMessage)
       <=> BelowThreshold(sel.confidence, sel.threshold))

\* C2: with non-overlapping runs, every completed platform update has added
\* exactly 1 to the platform's messagesCount and every completed conversation
\* update exactly 2 to the conversation's, and the stamps written are not
\* earlier than the start of the run that wrote them.
C2_CounterArithmetic ==
  /\ \A i \in 1..Len(platforms) :
       platforms[i].messagesCount =
         Cardinality({r \in Runs : runs[r].platform.id = i /\ Issued(r, "updateConversation")})
  /\ \A i \in 1..Len(conversations) :
       conversations[i].messagesCount =
         2 * Cardinality({r \in Runs : runs[r].conversation.id = i /\ Issued(r, "createSuccessLog")})
  /\ \A r \in Runs :
       /\ Issued(r, "updateConversation") =>
            platforms[runs[r].platform.id].lastMessageAt >= runs[r].startTime
       /\ Issued(r, "createSuccessLog") =>
            conversations[runs[r].conversation.id].lastMessageAt >= runs[r].startTime

\* a second successful run of the same user, finished after time has passed
C2_Witness ==
  \E r \in Runs :
    /\ runs[r].pc = "done"
    /\ platforms[runs[r].platform.id].messagesCount = 2
    /\ conversations[runs[r].conversation.id].messagesCount = 4
    /\ conversations[runs[r].conversation.id].lastMessageAt > runs[r].startTime

\* C3: with non-overlapping runs, the store holds at most one Conversation per
\* (platformId, userId), and two runs for the same pair resolve to the same
\* Conversation id.
C3_OneConversationPerUser ==
  /\ \A i, j \in 1..Len(conversations) :
       SamePair(conversations[i], conversations[j]) => i = j
  /\ \A r, q \in Runs :
       (/\ runs[r].conversation.id # 0 /\ runs[q].conversation.id # 0
        /\ runs[r].platform.id = runs[q].platform.id
        /\ runs[r].msg.from = runs[q].msg.from)
       => runs[r].conversation.id = runs[q].conversation.id

\* the second message of a user has found the conversation of the first
C3_Witness ==
  \E r, q \in Runs :
    /\ r # q
    /\ runs[r].conversation.id # 0
    /\ runs[r].conversation.id = runs[q].conversation.id
    /\ Issued(r, "createConversation") /\ ~Issued(q, "createConversation")
    /\ runs[q].pc = "done"

\* C4: two Conversation rows of one (platformId, userId) exist only through the
\* race: the run that created the later row made its lookup before the
\* earlier row was inserted.
C4_DuplicateOnlyByRace ==
  \A i, j \in 1..Len(conversations) :
    (i < j /\ SamePair(conversations[i], conversations[j]))
      => conversations[j].sawAtLookup < i

\* two Conversation rows for one user on one platform
C4_Witness ==
  \E i, j \in 1..Len(conversations) :
    i # j /\ SamePair(conversations[i], conversations[j])

\* C5: the counter a run writes is the value it read when it resolved the
\* row, plus 1 (platform) or plus 2 (conversation), whatever the row holds
\* at the time of the write.
C5_ReadModifyWrite ==
  [][\A r \in Runs :
       /\ (runs[r].pc = "updatePlatform" /\ runs'[r].pc = "updateConversation")
            => platforms'[runs[r].platform.id].messagesCount
                 = runs[r].platform.messagesCount + 1
       /\ (runs[r].pc = "updateConversation" /\ runs'[r].pc = "createSuccessLog")
            => conversations'[runs[r].conversation.id].messagesCount
                 = runs[r].conversation.messagesCount + 2]_vars

\* two successful runs on one conversation, and the counters show one turn
C5_Witness ==
  \E r, q \in Runs :
    /\ r # q
    /\ runs[r].pc = "done" /\ runs[q].pc = "done"
    /\ runs[r].platform.id = runs[q].platform.id
    /\ runs[r].conversation.id = runs[q].conversation.id
    /\ platforms[runs[r].platform.id].messagesCount = 1
    /\ conversations[runs[r].conversation.id].messagesCount = 2

\* C6: a failed delivery does not fail the run: a run reaches the catch block
\* only through a rejected store call; a run whose delivery failed and whose
\* store calls all succeeded is never failed and has both Messages persisted;
\* once it is done, both counter updates have been applied.
C6_SendFailureDoesNotFailRun ==
  \A r \in Runs :
    /\ runs[r].pc \in FailurePositions => runs[r].threw
    /\ DeliveryFailed(r) /\ ~runs[r].threw =>
         /\ runs[r].pc \notin FailurePositions
         /\ \E m \in messages : m.run = r /\ m.sender = "user"
         /\ \E m \in messages : m.run = r /\ m.sender = "bot"
    /\ DeliveryFailed(r) /\ runs[r].pc = "done" =>
         /\ Issued(r, "updatePlatform") /\ Issued(r, "updateConversation")
         /\ platforms[runs[r].platform.id].messagesCount >= 1
         /\ conversations[runs[r].conversation.id].messagesCount >= 2

\* a run whose fetch failed is done
C6_Witness ==
  \E r \in Runs : runs[r].sendResult = "failed" /\ runs[r].pc = "done"

\* C7: once sendMessage has returned from a failed delivery (credential
\* absent included), the store holds a Log of level error or warn with
\* source = channel for it.
C7_DeliveryFailureLogged ==
  \A r \in Runs :
    (/\ DeliveryFailed(r)
     /\ ~runs[r].threw
     /\ runs[r].pc \in {"updatePlatform", "updateConversation", "createSuccessLog", "done"})
    => \E l \in logs :
         l.run = r /\ l.level \in {"error", "warn"} /\ l.source = Source(r)

\* C8: every webhook POST whose handling has ended was answered 200.
C8_AlwaysAcknowledged ==
  \A r \in Runs : runs[r].pc \in Terminal => runs[r].ack = HTTP_OK

C9_Order ==
  \A r \in Runs :
    /\ \A i \in 1..(Len(runs[r].trace) - 1) :
         CallIndex(runs[r].trace[i]) < CallIndex(runs[r].trace[i + 1])
    /\ \A i \in 1..Len(runs[r].trace) :
         \A call \in MandatoryBefore[CallIndex(runs[r].trace[i])] : Issued(r, call)
    /\ runs[r].threw => runs[r].pc \in FailurePositions
    /\ runs[r].pc = "done" => Issued(r, "createSuccessLog")

C9_FailureIsFinal ==
  \A r \in Runs :
    runs[r].pc \in FailurePositions =>
      /\ runs'[r].pc \in FailurePositions
      /\ runs'[r].trace = runs[r].trace
      /\ \A m \in messages : m.run = r => m \in messages'
      /\ runs'[r] # runs[r] =>
           /\ platforms' = platforms
           /\ conversations' = conversations
           /\ messages' = messages

\* C9: a run issues the calls of the pipeline in the order of CallOrder, each
\* at most once and none of the mandatory ones skipped; once a call has
\* thrown the run issues no further call and stays failed, and what it had
\* written stays in the store.
C9_StepsInOrderOnce == []C9_Order /\ [][C9_FailureIsFinal]_vars

\* a run failed after it had persisted the user Message
C9_Witness ==
  \E r \in Runs :
    /\ runs[r].pc = "failed"
    /\ Issued(r, "createBotMessage") /\ ~Issued(r, "sendMessage")
    /\ \E m \in messages : m.run = r /\ m.sender = "user"

\* C10: whatever an observer receives from a broadcast, it has received the
\* four snapshot messages before.
C10_SnapshotBeforeBroadcast ==
  \A o \in Observers :
    \A i \in 1..Len(inbox[o]) :
      inbox[o][i].from # "snapshot" =>
        \A t \in Pending :
          \E j \in 1..(i - 1) : inbox[o][j] = [type |-> t, from |-> "snapshot"]

\* the types of the snapshot messages in an inbox, in their order of arrival
SnapshotReceived(o) ==
  LET IsSnapshot(m) == m.from = "snapshot"
      got == SelectSeq(inbox[o], IsSnapshot)
  IN [i \in 1..Len(got) |-> got[i].type]

\* C11: the snapshot messages an observer has received are the first k of
\* stats_update, platform_status, new_message, ml_update, in that order, each
\* once, whatever broadcasts arrive in between.
C11_SnapshotOrder ==
  \A o \in Observers :
    /\ Len(SnapshotReceived(o)) <= Len(SnapshotTypes)
    /\ SnapshotReceived(o) = SubSeq(SnapshotTypes, 1, Len(SnapshotReceived(o)))

\* an observer has received the whole snapshot and a broadcast in between
C11_Witness ==
  \E o \in Observers :
    /\ snapshot[o] = "sent"
    /\ SnapshotReceived(o) = SnapshotTypes
    /\ \E i \in 2..Len(inbox[o]) : inbox[o][i].from # "snapshot"

\* what the step has appended to the inbox of o
Delivered(o) == SubSeq(inbox'[o], Len(inbox[o]) + 1, Len(inbox'[o]))

\* C12: the step that completes a pipeline run delivers a new_message and a
\* platform_status broadcast to every connected observer.
C12_RunCompletionBroadcast ==
  [][\A r \in Runs :
       (runs[r].pc # "done" /\ runs'[r].pc = "done") =>
         \A o \in clients :
           sockets[o] = "open" =>
             /\ \E i \in 1..Len(Delivered(o)) :
                  Delivered(o)[i].type = "new_message" /\ Delivered(o)[i].from # "snapshot"
             /\ \E i \in 1..Len(Delivered(o)) :
                  Delivered(o)[i].type = "platform_status" /\ Delivered(o)[i].from # "snapshot"]_vars

\* C13: a verification request with mode subscribe and the token equal to
\* the configured secret is answered 200 with the challenge as body; any
\* other request is answered 403 with a body that is not the challenge.
C13_VerificationHandshake ==
  verified.chan # "none" =>
    IF verified.mode = "subscribe" /\ verified.token = verified.secret
      THEN /\ verified.status = HTTP_OK
           /\ verified.challenge # Undefined => verified.body = verified.challenge
      ELSE /\ verified.status = HTTP_FORBIDDEN
           /\ verified.body # verified.challenge

\* a request with the right token but another mode has been rejected
C13_Witness ==
  /\ verified.chan = "messenger"
  /\ verified.mode = "unsubscribe"
  /\ verified.token = "s3cret" /\ verified.secret = "s3cret"
  /\ verified.challenge = "1158201444"
  /\ verified.status = HTTP_FORBIDDEN

\* the step is a response selection
Selects == selections' = selections + 1

StoreRecords == <<platforms, conversations, messages, logs, botConfig>>

\* C14: a selection that resolves to a template adds exactly 1 to the
\* usageCount of that template, and no step lowers a usageCount; N such
\* turns in a row add exactly N.
C14_UsageCountPerMatch ==
  [][\A i \in 1..Len(templates) :
       /\ templates'[i].usageCount >= templates[i].usageCount
       /\ (Selects /\ sel'.templateId = i) =>
            templates'[i].usageCount = templates[i].usageCount + 1]_vars

\* the second turn in a row that resolved to one template
C14_Witness ==
  \E i \in 1..Len(templates) :
    /\ sel.trainer = "MLTrainer" /\ sel.templateId = i
    /\ selections = 2
    /\ templates[i].usageCount = 2

\* C15: a selection changes nothing in the store but the usageCount of the
\* template it resolved to; on the fallback path and on the canned-response
\* path (templateId = 0) the store is left as it was.
C15_SelectionFrame ==
  [][Selects =>
       /\ StoreRecords' = StoreRecords
       /\ Len(templates') = Len(templates)
       /\ \A i \in 1..Len(templates) :
            i # sel'.templateId => templates'[i] = templates[i]
       /\ \A i \in 1..Len(templates) :
            i = sel'.templateId =>
              [templates'[i] EXCEPT !.usageCount = 0]
                = [templates[i] EXCEPT !.usageCount = 0]]_vars

\* a canned response and a fallback have been selected with templates stored
C15_Witness ==
  /\ Len(templates) > 0
  /\ sel.trainer = "MLTrainer" /\ sel.templateId = 0 /\ ~sel.threw
  /\ sel.response # sel.fallbackMessage
  /\ selections = 2

\* the placeholders of a content all stand in the variables list
Declared(content, variables) ==
  \A i \in 1..Len(content) :
    \A v \in {"name", "orderNumber"} :
      content[i] = Placeholder(v) => \E k \in 1..Len(variables) : variables[k] = v

\* the content with every placeholder of a present entity replaced
FullySubstituted(content, entities) ==
  [i \in 1..Len(content) |->
     IF \E v \in DOMAIN entities : content[i] = Placeholder(v)
       THEN entities[CHOOSE v \in DOMAIN entities : content[i] = Placeholder(v)]
       ELSE content[i]]

C17_BaselineConfidence ==
  sel.trainer # "none" => sel.confidence = 75 * ScaleUnit

C19_OnlyTheResponseIsSent ==
  /\ \A o \in outbox :
       /\ o.text = SimpleGenerateResponse(runs[o.run].msg.text).response
       /\ \E m \in messages : m.run = o.run /\ m.sender = "bot" /\ m.content = o.text
       /\ o.chan = runs[o.run].msg.chan /\ o.to = runs[o.run].msg.from
       /\ \A q \in outbox : q.run = o.run => q = o
  /\ \A r \in Runs :
       ~Issued(r, "sendMessage") => \A o \in outbox : o.run # r

\* one run has delivered its response and another failed before the send
C19_Witness ==
  \E r, q \in Runs :
    /\ \E o \in outbox : o.run = r
    /\ runs[q].pc = "failed" /\ ~Issued(q, "sendMessage")
    /\ \A o \in outbox : o.run # q

\* C20: the elapsed time recorded for a turn is read when the outbound send
\* has completed: a bot Message carries a responseTime only once the
\* sendMessage call of its run has returned.
C20_ResponseTimeCoversSend ==
  \A m \in messages :
    m.sender = "bot" => runs[m.run].sendResult # "none"

\* the step sends a message addressed to o: a broadcast, or the next message
\* of its snapshot
SendAddressedTo(o) ==
  \/ broadcasts' = broadcasts + 1 /\ o \in clients
  \/ snapshot[o] \in Pending /\ snapshot'[o] = AfterSnapshot(snapshot[o])

\* C21 (as claimed): a send addressed to an observer whose socket is not open
\* removes that observer from the set of connected observers.
C21_DroppedSendRemoves ==
  [][\A o \in Observers :
       (o \in clients /\ sockets[o] # "open" /\ SendAddressedTo(o)) =>
         o \notin clients']_vars

\* C21 (amended): a send addressed to an observer whose socket is not open
\* delivers nothing to it, then or later, and does not keep the broadcast
\* from the open observers; an observer leaves the set of connected
\* observers only by the close/error event of its socket.
C21_DroppedSilently ==
  [][\A o \in Observers :
       /\ sockets[o] # "open" => inbox'[o] = inbox[o]
       /\ (broadcasts' = broadcasts + 1 /\ o \in clients /\ sockets[o] = "open") =>
            Len(inbox'[o]) = Len(inbox[o]) + 1
       /\ (o \in clients /\ o \notin clients') =>
            sockets[o] = "closing" /\ sockets'[o] = "closed"]_vars

\* an observer lost part of its snapshot to a closed socket and was removed
\* by the close event
C21_Witness ==
  \E o \in Observers :
    /\ sockets[o] = "closed" /\ o \notin clients
    /\ snapshot[o] = "sent"
    /\ Len(SnapshotReceived(o)) < Len(SnapshotTypes)

\* the rule table in its canonical order: trigger substrings and label
IntentRules ==
  << [triggers |-> {T_hello, T_hi, T_hey}, intent |-> "greeting"],
     [triggers |-> {T_help, T_support}, intent |-> "help_request"],
     [triggers |-> {T_thank, T_thanks}, intent |-> "gratitude"],
     [triggers |-> {T_bye, T_goodbye}, intent |-> "farewell"],
     [triggers |-> {T_price, T_cost, T_payment}, intent |-> "pricing_inquiry"],
     [triggers |-> {T_delivery, T_shipping}, intent |-> "delivery_inquiry"] >>

\* the label of the first rule that fires, general_inquiry when none does
FirstRule(Fires(_)) ==
  LET firing == {k \in 1..Len(IntentRules) : Fires(IntentRules[k])} IN
  IF firing = {} THEN "general_inquiry"
  ELSE IntentRules[CHOOSE k \in firing : \A j \in firing : k <= j].intent

\* C22 (as claimed): the intent is the label of the first rule all of whose
\* trigger substrings occur in the lower-cased, trimmed text.
C22_FirstRuleAllTriggers ==
  \A i \in 1..Len(hist) :
    LET text == trim(toLowerCase(hist[i].text))
        Fires(rule) == \A t \in rule.triggers : includes(text, t)
    IN hist[i].result.intent = FirstRule(Fires)

\* C22 (amended): the intent is the label of the first rule one of whose
\* trigger substrings occurs in the lower-cased, trimmed text, and
\* general_inquiry when no rule has one.
C22_FirstRuleAnyTrigger ==
  \A i \in 1..Len(hist) :
    LET text == trim(toLowerCase(hist[i].text))
        Fires(rule) == \E t \in rule.triggers : includes(text, t)
    IN hist[i].result.intent = FirstRule(Fires)

\* a text with triggers of three rules got the label of the first, and a
\* text without trigger the default
C22_Witness ==
  \E i, j \in 1..Len(hist) :
    /\ includes(toLowerCase(hist[i].text), T_help)
    /\ includes(toLowerCase(hist[i].text), T_shipping)
    /\ hist[i].result.intent = "greeting"
    /\ hist[j].result.intent = "general_inquiry"

\* C23: template matching considers active templates only: a selection never
\* returns a template whose isActive is false, and the usageCount of such a
\* template never changes.
C23_ActiveTemplatesOnly ==
  [][ /\ \A i \in 1..Len(templates) :
           ~templates[i].isActive => templates'[i].usageCount = templates[i].usageCount
      /\ (selections' # selections /\ sel'.templateId \in 1..Len(templates))
           => templates[sel'.templateId].isActive ]_vars

\* bot messages, and bot messages with a response time, among the rows
BotRows(rows) == RowsOfSender(rows, "bot")
TimedBotRows(rows) == { i \in BotRows(rows) : rows[i].responseTime # Null }

RECURSIVE SumOfTimes(_, _)
SumOfTimes(rows, among) ==
  IF among = {} THEN 0
  ELSE LET i == CHOOSE k \in among : TRUE IN
       (CHOOSE v \in rows[i].responseTime : TRUE) + SumOfTimes(rows, among \ {i})

\* C24: the response rate is (bot messages / user messages) x 100 over the
\* messages read (rounded to an integer), 100 when no user message was read,
\* and never above 100.
C24_ResponseRate ==
  stats.computed =>
    LET rows == stats.recentMessages
        users == Cardinality(RowsOfSender(rows, "user"))
    IN /\ stats.responseRate <= 100
       /\ stats.responseRate =
            IF users = 0 THEN 100
            ELSE Round(Cardinality(BotRows(rows)) * 100, users)

\* C25: the average response time is the mean, rounded to the nearest integer,
\* of the non-null responseTime values of the bot messages read, a response
\* time of 0 counting as a sample, and 0 when there is no such value.
C25_AvgResponseTime ==
  stats.computed =>
    LET rows == stats.recentMessages
        timed == TimedBotRows(rows)
    IN stats.avgResponseTime =
         IF timed = {} THEN 0
         ELSE Round(SumOfTimes(rows, timed), Cardinality(timed))

\* C26: every run that has ended has written a Log with source = channel
\* whose level tells the outcome: error when a step of the run failed
\* (a store call rejected, or the delivery failed), info otherwise.
C26_OutcomeLog ==
  \A r \in Runs :
    runs[r].pc \in Terminal =>
      \E l \in logs :
        /\ l.run = r
        /\ l.source = Source(r)
        /\ l.level = IF runs[r].threw \/ DeliveryFailed(r) THEN "error" ELSE "info"

\* C27: with no bot configuration stored, a run that has invoked response
\* selection fails there: it has stored its user message, it stores no bot
\* message, sends nothing, updates no counter, and ends as failed.
C27_NoConfigFailsRun ==
  \A r \in Runs :
    (~botConfig.present /\ Issued(r, "generateResponse")) =>
      /\ \E m \in messages : m.run = r /\ m.sender = "user"
      /\ ~Issued(r, "createBotMessage")
      /\ ~Issued(r, "sendMessage")
      /\ ~Issued(r, "updatePlatform")
      /\ runs[r].pc # "done"

\* C28: an update or delete that addresses an id no row has is answered with
\* an error that differs from the answer to an invalid body, and leaves the
\* tables unchanged.
C28_NotFoundReported ==
  (http.route # "none" /\ http.valid /\ ~http.found) =>
    /\ http.status # HTTP_OK
    /\ http.status # HTTP_BAD_REQUEST \/ http.body \notin {"Invalid platform data", "Invalid template data"}

C30_TestBotFrame ==
  [][ (\E text \in SelectTexts : TestBot(text))
        => UNCHANGED <<platforms, conversations, messages>> ]_vars

\* a bot test has run on a store that holds a platform, a conversation and
\* messages
C30_Witness ==
  /\ sel.trainer = "SimpleMLTrainer"
  /\ platforms # <<>> /\ conversations # <<>> /\ messages # {}

\* the rows of table messages that reference the conversation
MessagesOf(conversationId) == { m \in messages : m.conversationId = conversationId }

\* C31: in every state each conversation's messagesCount is even and is at
\* most the number of messages that reference the conversation.
C31_CountEvenAndBounded ==
  \A i \in 1..Len(conversations) :
    /\ conversations[i].messagesCount % 2 = 0
    /\ conversations[i].messagesCount <= Cardinality(MessagesOf(i))

\* two interleaved runs on one conversation have both ended: four messages,
\* and a counter that one of the two updates has overwritten
C31_Witness ==
  \E i \in 1..Len(conversations) :
    /\ conversations[i].messagesCount = 2
    /\ Cardinality(MessagesOf(i)) = 4
    /\ \A r \in Runs : runs[r].pc = "done"

\* every run of the batch has ended without a rejected store call
BatchDone == \A r \in Runs : runs[r].pc = "done" /\ ~runs[r].threw

\* C32 (as claimed): once the runs of a batch of N messages of a user with a
\* conversation have all completed, the conversation's messagesCount is 2N
\* higher, the platform's messagesCount N higher, and no conversation was
\* created.
C32_BatchCountsExact ==
  BatchDone =>
    /\ conversations[1].messagesCount = EarlierConversation.messagesCount + 2 * MaxRuns
    /\ platforms[1].messagesCount = EarlierPlatform.messagesCount + MaxRuns
    /\ Len(conversations) = 1

\* C32 (amended): once the runs have all completed, the 2N messages are
\* stored, no conversation was created, and the counters are higher by what
\* between one and N of the runs add: the conversation's by 2k, the
\* platform's by j, with k and j in 1..N.
C32_BatchCountsBounded ==
  BatchDone =>
    /\ Len(conversations) = 1
    /\ Cardinality(MessagesOf(1)) = Cardinality(EarlierMessages) + 2 * MaxRuns
    /\ \E k \in 1..MaxRuns :
         conversations[1].messagesCount = EarlierConversation.messagesCount + 2 * k
    /\ \E j \in 1..MaxRuns :
         platforms[1].messagesCount = EarlierPlatform.messagesCount + j

\* the batch has completed, and the counters show one turn only
C32_Witness ==
  /\ BatchDone
  /\ conversations[1].messagesCount = EarlierConversation.messagesCount + 2
  /\ platforms[1].messagesCount = EarlierPlatform.messagesCount + 1

\* C33: no state holds two Platform rows of one channel: the runs of a
\* channel, however interleaved, create its row once.
C33_OnePlatformPerChannel ==
  \A i, j \in 1..Len(platforms) :
    platforms[i].name = platforms[j].name => i = j

\* C34: a verification request made while no verify-token secret is
\* configured is rejected, whatever token it presents.
C34_NoSecretRejects ==
  (verified.chan # "none" /\ verified.secret \in {Undefined, ""}) =>
    verified.status = HTTP_FORBIDDEN

\* C35: in every state the set of connected observers holds exactly the
\* observers that have connected and whose close or error event has not been
\* handled; an observer is in the set before its snapshot starts; and once
\* its close or error event was handled no message is sent to it.
C35_ObserverSet ==
  /\ [](/\ clients = { o \in Observers : sockets[o] \in {"open", "closing"} }
        /\ \A o \in Observers : snapshot[o] # "none" => sockets[o] # "none")
  /\ [][\A o \in Observers : sockets[o] = "closed" => inbox'[o] = inbox[o]]_vars

\* an observer was removed on its close event, and another one, still in the
\* set, has received a broadcast the removed one has not
C35_Witness ==
  \E o, p \in Observers :
    /\ sockets[o] = "closed" /\ o \notin clients
    /\ p \in clients
    /\ \E i \in 1..Len(inbox[p]) : inbox[p][i].from # "snapshot"
    /\ \A i \in 1..Len(inbox[o]) : inbox[o][i].from = "snapshot"

\* C36: each close of a connection of the hook sets one reconnect attempt,
\* and once the cleanup of the hook (unmount) has closed the socket the hook
\* opens no further connection.
C36_NoConnectionAfterCleanup ==
  [][ /\ hook'.closes # hook.closes => hook'.timers = hook.timers + 1
      /\ (hook.phase = "unmounted" /\ (hook.ws = "closing" \/ hook.closedBy = "cleanup"))
           => hook'.opened = hook.opened ]_vars

====
